---------------------------- MODULE Spec2Model ----------------------------
(***************************************************************************)
(* Model of the theme colour editor (theme-color-editor.js): the colour    *)
(* variables (VariableInfo), their indirect definitions and dependency     *)
(* links, the throttled change notification that writes a variable to the  *)
(* page and updates its dependents, and the contrast repair.               *)
(*                                                                         *)
(* Representation                                                          *)
(*  - A colour is a sequence <<r, g, b>> or <<r, g, b, a>>; the channels   *)
(*    are 0..255 and the alpha a is kept in 1/255 units (AlphaOne is the   *)
(*    JavaScript alpha 1).  Null (<<>>) is JavaScript's null / undefined.  *)
(*  - A text (a value typed by the user, a CSS declaration value) is a     *)
(*    record [k, d, n]: k = "hex" is '#' followed by the hex digits d,     *)
(*    k = "var" is 'var(--n[1])', k = "ld" is                              *)
(*    'light-dark(var(--n[1]), var(--n[2]))', k = "oklch" is               *)
(*    'oklch(from var(--n[1]) l c h)', k = "rgb" is 'rgb(d)' / 'rgba(d)'    *)
(*    as the browser serialises a computed colour, k = "empty" is '',      *)
(*    k = "srgb" is 'color(srgb d)' with the decimal numbers d, each a     *)
(*    record [i, f] of its integer part and its fraction digits.           *)
(*  - Numbers the code keeps in doubles are kept exact: HSL components as  *)
(*    fractions with a stated denominator, luminances in 1e-6 units        *)
(*    (LumOne is the luminance 1).                                         *)
(*    Math.round of an exact half rounds up; the doubles of the program    *)
(*    can come out just below such a half and round down, one lower.       *)
(*  - A number option that holds NaN is the slot NaN, a colour whose       *)
(*    channels are NaN is NaNColor(alpha).  A factor option is <<n>> or    *)
(*    the fraction <<n, d>>.                                               *)
(*  - inOutTextarea is the list of declarations in the import / export     *)
(*    textarea; conv is a colour taken through the colour conversions on   *)
(*    their own (ConversionSpec) or a text taken through parseColor        *)
(*    (ParseSpec).  holdVariable is the name kept by the copy button       *)
(*    ("" is undefined).  picker is the colour picker: its colour, the     *)
(*    variable it edits ("" is null), the state of its preview throttle,   *)
(*    for each of its set timeouts the number of timeouts of the           *)
(*    variables that expire before it, and (chosen, no counterpart in the  *)
(*    program) the variable and colour of the last input on its controls.  *)
(*                                                                         *)
(* Environment                                                             *)
(*  - The page declares no dark colour scheme, so light-dark() takes its   *)
(*    first colour.  The browser serialises a computed colour made by      *)
(*    oklch() as 'oklch(...)', every other one as rgb() / rgba().          *)
(*    SpecWithoutFg runs the editor on a page that does not declare --fg,  *)
(*    ViewSpec on a page whose stylesheet has a .view-dark rule,           *)
(*    SpecIndirectBg on a page that declares --bg as var(--fg).            *)
(*    PasteSpec adds the copy and paste buttons, PickerSpec the colour     *)
(*    picker.                                                              *)
(*  - An exception thrown in a handler ends the handler; what it had       *)
(*    changed until then stays (err names the exception).  The call stack  *)
(*    of the engine is finite: colorChanged calls nested deeper than the   *)
(*    stack has room for end in a RangeError.                              *)
(*  - The throttles of the variables have the same delay, so their         *)
(*    timeouts expire in the order they were set.  The delay of the        *)
(*    picker's throttle is longer: its timeout expires after the           *)
(*    timeouts of the variables set before it, before or after those set   *)
(*    later.  turn holds the parities of the numbers of timer callbacks    *)
(*    run and has no counterpart in the program.                           *)
(***************************************************************************)
EXTENDS Integers, Sequences, FiniteSets, TLC

(***************************************************************************)
(* Bounds of the model.                                                    *)
(***************************************************************************)
\* number of user operations in one behaviour
MaxOps == 2
\* least nesting depth of colorChanged calls at which the call stack of the
\* engine is exhausted (a RangeError is thrown)
MaxDepth == 6

(***************************************************************************)
(* Program constants.                                                      *)
(***************************************************************************)
AlphaOne == 255
LumOne == 1000000
LumPad == 5000
MaxDifference == 5000
LumDarkMean == 180000
MaxLoop == 20

Null == <<>>

\* The slot of a number is <<>> (undefined), <<x>> (the number x) or NaN.
\* A colour whose three channels are NaN is the sequence of its alpha alone.
NaN == <<0, 0>>
IsNaN(slot) == Len(slot) = 2
NaNColor(alpha) == <<alpha>>
IsNaNColor(rgb) == Len(rgb) = 1

Max2(x, y) == IF x >= y THEN x ELSE y
Min2(x, y) == IF x <= y THEN x ELSE y
Abs(x) == IF x >= 0 THEN x ELSE -x

\* Math.round of the fraction p / q (q > 0): floor(p/q + 1/2)
RoundDiv(p, q) == (2 * p + q) \div (2 * q)

\* JavaScript's % on integers: the result has the sign of the dividend
JsRem(a, b) == IF a >= 0 THEN a % b ELSE -((-a) % b)

(***************************************************************************)
(* Texts.                                                                  *)
(***************************************************************************)
Txt(k, d, n) == [k |-> k, d |-> d, n |-> n]
EmptyText == Txt("empty", <<>>, <<>>)
HexText(d) == Txt("hex", d, <<>>)
VarText(x) == Txt("var", <<>>, <<x>>)
LdText(x, y) == Txt("ld", <<>>, <<x, y>>)
\* 'oklch(from var(--x) l c h)', and 'oklch(l c h)' with an empty n
OklchText(x) == Txt("oklch", <<>>, <<x>>)

\* a colour the browser keeps, and serialises, in the oklch colour space
Oklch == <<"oklch">>

(***************************************************************************)
(* Colour parsing and formatting.                                          *)
(***************************************************************************)
\* hexToRgb: 3 or 4 digits are doubled; 6 or 8 digits are read as rrggbb[aa];
\* a text with a character that is no hex digit (a d[i] above 15) is invalid
hexToRgb(d) ==
    LET dd == IF Len(d) = 3 \/ Len(d) = 4
              THEN [i \in 1..(2 * Len(d)) |-> d[(i + 1) \div 2]]
              ELSE d
    IN  IF Len(d) = 0 THEN Null
        ELSE IF Len(dd) # 6 /\ Len(dd) # 8 THEN Null
        ELSE IF \E i \in 1..Len(dd) : dd[i] \notin 0..15 THEN Null
        ELSE <<16 * dd[1] + dd[2], 16 * dd[3] + dd[4], 16 * dd[5] + dd[6],
               IF Len(dd) = 8 THEN 16 * dd[7] + dd[8] ELSE AlphaOne>>

\* rgbToHexString without the hash: the digits of the three channels and, for
\* a colour with four channels and alpha < 1, the two digits of the alpha
rgbToHexDigits(rgb) ==
    LET two(c) == <<c \div 16, c % 16>>
    IN  two(rgb[1]) \o two(rgb[2]) \o two(rgb[3])
        \o (IF Len(rgb) = 4 /\ rgb[4] < AlphaOne THEN two(rgb[4]) ELSE <<>>)

rgbToHexString(rgb) ==
    IF rgb = Null THEN EmptyText
    ELSE IF IsNaNColor(rgb) THEN Txt("word", <<>>, <<"#NaNNaNNaN">>)
    ELSE IF Len(rgb) < 3 THEN EmptyText ELSE HexText(rgbToHexDigits(rgb))

\* rgbEqual: both null, or the first four elements equal (a missing fourth
\* element is undefined and equals only another missing one)
rgbEqual(rgb1, rgb2) ==
    IF rgb1 = Null /\ rgb2 = Null THEN TRUE
    ELSE IF rgb1 = Null \/ rgb2 = Null THEN FALSE
    ELSE IF IsNaNColor(rgb1) \/ IsNaNColor(rgb2) THEN FALSE   \* NaN == NaN is false
    ELSE /\ rgb1[1] = rgb2[1]
         /\ rgb1[2] = rgb2[2]
         /\ rgb1[3] = rgb2[3]
         /\ Len(rgb1) = Len(rgb2)
         /\ (Len(rgb1) = 4 => rgb1[4] = rgb2[4])

invertedColor(rgb) ==
    IF rgb = Null THEN Null
    ELSE <<255 - rgb[1], 255 - rgb[2], 255 - rgb[3]>>
         \o (IF Len(rgb) = 4 THEN <<rgb[4]>> ELSE <<>>)

(***************************************************************************)
(* RGB <-> HSL.                                                            *)
(***************************************************************************)
Max3(c) == Max2(c[1], Max2(c[2], c[3]))
Min3(c) == Min2(c[1], Min2(c[2], c[3]))

\* rgbToHsvSl: <<hue, saturation_hsv, value, saturation_hsl, lightness>>,
\* each rounded to an integer
rgbToHsvSl(c) ==
    LET mx == Max3(c)
        mn == Min3(c)
        d  == mx - mn
        hue(x, y, off) == RoundDiv((60 * (x - y) + off * d) % (360 * d), d)
        h  == IF mx = mn THEN 0
              ELSE IF mx = c[1] THEN hue(c[2], c[3], 360)
              ELSE IF mx = c[2] THEN hue(c[3], c[1], 120)
              ELSE hue(c[1], c[2], 240)
    IN  << h,
           IF mx = 0 THEN 0 ELSE RoundDiv(100 * d, mx),
           RoundDiv(100 * mx, 255),
           IF mx = mn THEN 0 ELSE RoundDiv(100 * d, 255 - Abs(mx + mn - 255)),
           RoundDiv((mx + mn) * 50, 255) >>

\* One channel of hslToRgb for the hue h (an integer number of degrees), the
\* saturation s / sd percent and the lightness l / ld percent:
\*   k = (n + h / 30) % 12
\*   round((L - S * min(L, 1 - L) * max(min(k - 3, 9 - k, 1), -1)) * 255)
\* with S, L the fractions of 1.  The lightness is split in its integer and
\* fractional part to keep the products within 32 bits.
hslChannel(n, h, s, sd, l, ld) ==
    LET k30 == JsRem(30 * n + h, 360)
        t   == Max2(Min2(Min2(k30 - 90, 270 - k30), 30), -30)
        m   == Min2(l, 100 * ld - l)
        a   == 3000 * sd * (l \div ld) - s * t * (m \div ld)
        f   == 3000 * sd * (l % ld) - s * t * (m % ld)
        g   == 34 * (f \div ld) + ((34 * (f % ld)) \div ld)
    IN  (34 * a + 20000 * sd + g) \div (40000 * sd)

\* hsvToRgb without the upper clamp of min(k, 4 - k, 1)
hsvToRgbWithoutClamp(h, s, v, alpha) ==
    LET f(n) == LET k60 == JsRem(60 * n + h, 360)
                    t   == Max2(Min2(k60, 240 - k60), 0)
                IN  RoundDiv(255 * v * (6000 - s * t), 600000)
    IN  << f(5), f(3), f(1), alpha >>

\* hsvToRgb for the hue h degrees, the saturation s and the value v percent:
\*   k = (n + h / 60) % 6
\*   round(V * (1 - S * max(min(k, 4 - k, 1), 0)) * 255)
\* with S, V the fractions of 1
hsvToRgb(h, s, v, alpha) ==
    LET f(n) == LET k60 == JsRem(60 * n + h, 360)
                    t   == Max2(Min2(Min2(k60, 240 - k60), 60), 0)
                IN  RoundDiv(255 * v * (6000 - s * t), 600000)
    IN  << f(5), f(3), f(1), alpha >>

hslToRgb(h, s, sd, l, ld, alpha) ==
    << hslChannel(0, h, s, sd, l, ld),
       hslChannel(8, h, s, sd, l, ld),
       hslChannel(4, h, s, sd, l, ld),
       alpha >>


\* A factor option is <<x>> for x tenths, or <<n, d>> for the fraction n / d
\* (in lowest terms) when that is no whole number of tenths.
FactorNum(factor) == IF factor = <<>> THEN 10 ELSE factor[1]
FactorDen(factor) == IF Len(factor) = 2 THEN factor[2] ELSE 10

\* adjustHsl: the hue is rotated by hueRotate degrees, the HSL saturation and
\* lightness are multiplied by their factors and clamped to [0, 100]; an
\* option that is undefined (<<>>) takes its default; with an option that is
\* NaN every channel hslToRgb computes is NaN
adjustHsl(rgb, hueRotate, saturationFactor, lightnessFactor) ==
    IF rgb = Null THEN Null
    ELSE IF IsNaN(hueRotate) \/ IsNaN(saturationFactor) \/ IsNaN(lightnessFactor)
    THEN NaNColor(IF Len(rgb) = 4 THEN rgb[4] ELSE AlphaOne)
    ELSE LET hsvsl == rgbToHsvSl(rgb)
             hr == IF hueRotate = <<>> THEN 0 ELSE hueRotate[1]
             sd == FactorDen(saturationFactor)
             ld == FactorDen(lightnessFactor)
         IN  hslToRgb(hsvsl[1] + hr,
                      Min2(100 * sd, Max2(0, hsvsl[4] * FactorNum(saturationFactor))), sd,
                      Min2(100 * ld, Max2(0, hsvsl[5] * FactorNum(lightnessFactor))), ld,
                      IF Len(rgb) = 4 THEN rgb[4] ELSE AlphaOne)

(***************************************************************************)
(* Luminance and contrast.                                                 *)
(***************************************************************************)
\* the gamma-decoded channel c / 255 in 1e-5 units:
\* s < 0.03928 ? s / 12.92 : ((s + 0.055) / 1.055) ^ 2.4
LinearChannel ==
    <<
      0, 30, 61, 91, 121, 152, 182, 212, 243, 273, 304, 335, 368, 402, 439, 478,
      518, 561, 605, 651, 700, 750, 802, 857, 913, 972, 1033, 1096, 1161, 1229, 1298, 1370,
      1444, 1521, 1600, 1681, 1764, 1850, 1938, 2029, 2122, 2217, 2315, 2416, 2519, 2624, 2732, 2843,
      2956, 3071, 3190, 3310, 3434, 3560, 3689, 3820, 3955, 4092, 4231, 4374, 4519, 4667, 4817, 4971,
      5127, 5286, 5448, 5613, 5781, 5951, 6125, 6301, 6480, 6663, 6848, 7036, 7227, 7421, 7619, 7819,
      8022, 8228, 8438, 8650, 8866, 9084, 9306, 9531, 9759, 9990, 10224, 10462, 10702, 10946, 11193, 11444,
      11697, 11954, 12214, 12477, 12744, 13014, 13287, 13563, 13843, 14126, 14413, 14703, 14996, 15293, 15593, 15896,
      16203, 16513, 16827, 17144, 17465, 17789, 18116, 18447, 18782, 19120, 19462, 19807, 20156, 20508, 20864, 21223,
      21586, 21953, 22323, 22697, 23074, 23455, 23840, 24228, 24620, 25016, 25415, 25818, 26225, 26636, 27050, 27468,
      27889, 28315, 28744, 29177, 29614, 30054, 30499, 30947, 31399, 31855, 32314, 32778, 33245, 33716, 34191, 34670,
      35153, 35640, 36131, 36625, 37124, 37626, 38133, 38643, 39157, 39676, 40198, 40724, 41254, 41789, 42327, 42869,
      43415, 43966, 44520, 45079, 45641, 46208, 46778, 47353, 47932, 48515, 49102, 49693, 50289, 50888, 51492, 52100,
      52712, 53328, 53948, 54572, 55201, 55834, 56471, 57112, 57758, 58408, 59062, 59720, 60383, 61050, 61721, 62396,
      63076, 63760, 64448, 65141, 65837, 66539, 67244, 67954, 68669, 69387, 70110, 70838, 71569, 72306, 73046, 73791,
      74540, 75294, 76052, 76815, 77582, 78354, 79130, 79910, 80695, 81485, 82279, 83077, 83880, 84687, 85499, 86316,
      87137, 87962, 88792, 89627, 90466, 91310, 92158, 93011, 93869, 94731, 95597, 96469, 97345, 98225, 99110, 100000
    >>

\* relativeLuminance in 1e-6 units
relativeLuminance(rgb) ==
    RoundDiv(2126 * LinearChannel[rgb[1] + 1] + 7152 * LinearChannel[rgb[2] + 1]
             + 722 * LinearChannel[rgb[3] + 1], 1000)

\* neededLuminanceForContrast: the luminances strictly between the two bounds
\* miss the contrast c10 / 10 to the luminance lum
neededLuminanceForContrast(lum, c10) ==
    IF c10 < 10 THEN <<lum, lum>>
    ELSE << (10 * (lum + 50000)) \div c10 - 50000,
            (c10 * (lum + 50000)) \div 10 - 50000 >>

\* luminanceContrast(relLum1, relLum2) >= c1000 / 1000
luminanceContrastAtLeast(relLum1, relLum2, c1000) ==
    1000 * (Max2(relLum1, relLum2) + 50000)
        >= c1000 * (Min2(relLum1, relLum2) + 50000)

\* luminanceContrast(relLum1, relLum2), the fraction <<numerator, denominator>>
luminanceContrast(relLum1, relLum2) ==
    << Max2(relLum1, relLum2) + 50000, Min2(relLum1, relLum2) + 50000 >>

\* colorContrast(rgb1, rgb2): undefined (Null) when a colour is missing, else
\* the contrast of the luminances, each mixed with the other by its alpha
\* when an alpha is not 1; NaN when a colour is NaN or an array without alpha
colorContrast(rgb1, rgb2) ==
    IF rgb1 = Null \/ rgb2 = Null THEN Null
    ELSE IF IsNaNColor(rgb1) \/ IsNaNColor(rgb2) THEN NaN
    ELSE LET relLum1 == relativeLuminance(rgb1)
             relLum2 == relativeLuminance(rgb2)
         IN  IF Len(rgb1) < 4 \/ Len(rgb2) < 4 THEN NaN
             ELSE IF rgb1[4] = AlphaOne /\ rgb2[4] = AlphaOne
             THEN luminanceContrast(relLum1, relLum2)
             ELSE luminanceContrast(
                      RoundDiv(relLum1 * rgb1[4] + relLum2 * (AlphaOne - rgb1[4]), AlphaOne),
                      RoundDiv(relLum2 * rgb2[4] + relLum1 * (AlphaOne - rgb2[4]), AlphaOne))

\* the class UpdateContrast gives the contrast display for the contrast and
\* the minimal contrast (in tenths): sufficient from minContrast on,
\* insufficient from 0.8 * minContrast on, else bad (every comparison with NaN
\* is false)
ContrastClass(contrast, minContrast) ==
    IF contrast = NaN THEN "bad"
    ELSE IF 10 * contrast[1] >= minContrast * contrast[2] THEN "sufficient"
    ELSE IF 100 * contrast[1] >= 8 * minContrast * contrast[2] THEN "insufficient"
    ELSE "bad"

\* The loop of setRelativeLuminance: a binary search on the lightness (kept in
\* 1 / LightnessUnit percent) for the luminance target, at most MaxLoop rounds
LightnessUnit == 2 ^ 18

RECURSIVE SearchLightness(_, _, _, _, _, _, _)
SearchLightness(h, s, alpha, target, lo, hi, loopCounter) ==
    LET lightness == (lo + hi) \div 2
        adjusted  == hslToRgb(h, s, 1, lightness, LightnessUnit, alpha)
        diff      == target - relativeLuminance(adjusted)
    IN  IF Abs(diff) < MaxDifference \/ loopCounter + 1 >= MaxLoop THEN adjusted
        ELSE IF diff > 0
             THEN SearchLightness(h, s, alpha, target, lightness, hi, loopCounter + 1)
             ELSE SearchLightness(h, s, alpha, target, lo, lightness, loopCounter + 1)

setRelativeLuminance(rgb, relativeLuminanceTarget) ==
    LET hsvsl == rgbToHsvSl(rgb)
    IN  SearchLightness(hsvsl[1], hsvsl[4],
                        IF Len(rgb) = 4 THEN rgb[4] ELSE AlphaOne,
                        relativeLuminanceTarget, 0, 100 * LightnessUnit, 0)


(***************************************************************************)
(* The variables of the editor and the page.                               *)
(***************************************************************************)
Vars == {"bg", "fg", "bg--inverted"}

\* the rows of the variable table in their order, which is the order of the
\* map variableInfo
VariableOrder == <<"bg", "fg", "bg--inverted">>

\* the contrast column of the variable table: for each row variable the
\* variables it is checked against and the minimal contrast (in tenths),
\* which is the number 4.5 when the cell states none and else the string of
\* the cell's data-min-contrast attribute
ContrastVariables ==
    "bg" :> <<>>
    @@ "fg" :> << [variable |-> "bg", minContrast |-> 45, typeof |-> "number"] >>
    @@ "bg--inverted" :>
        << [variable |-> "bg", minContrast |-> 45, typeof |-> "number"],
           [variable |-> "fg", minContrast |-> 30, typeof |-> "string"] >>

VARIABLES
    vi,     \* themeColorEditor.variableInfo: name -> VariableInfo
    timers, \* the pending timeouts of the throttles, in the order they expire
    page,   \* themeColorEditor.pageRules: the custom properties set on :root
    err,    \* the exception that ended a handler ("" when none did)
    ops,    \* number of user operations so far
    turn,   \* parities of the numbers of timer callbacks the event loop has run
    last,   \* the last step: its operation, its arguments and what it did
    inOutTextarea,  \* the text of the import / export textarea
    conv,   \* a colour, its rgbToHsvSl components and the colour made of them
    holdVariable,   \* themeColorEditor.holdVariable: the variable copied last
    picker  \* themeColorEditor.colorPicker

vars == <<vi, timers, page, err, ops, turn, last, inOutTextarea, conv, holdVariable,
          picker>>

Range(q) == {q[i] : i \in 1..Len(q)}

\* a property bound by addColorOptionControlAndBind holds <<>> (undefined)
\* until it is first set, then <<x>>
Truthy(p) == p = <<TRUE>>

\* themeColorEditor.colorPicker after its construction: no colour, no variable
\* to edit, hidden; its throttle of the preview (updatePreviewThrottled) is
\* idle.  timers holds, for every pending timeout of that throttle, the
\* number of timeouts of the variables' throttles that expire before it
\* (Armed for a timeout set by the handler that is running); chosen is the
\* variable and the colour of the last input on the picker's controls.
Armed == -1
ClosedPicker ==
    [rgb |-> Null, currentColorVariable |-> "", isInCooldown |-> FALSE,
     callAfterThrottle |-> FALSE, timers |-> <<>>, chosen |-> <<>>]

\* the world an operation works on: the editor's state and, for the record of
\* the step, the variables whose colorChanged ran (ran) and those whose
\* throttled notification was requested (req)
\* stackLimit is the nesting depth of colorChanged the call stack has room for
World(i, t, p, stackLimit) ==
    [vi |-> i, timers |-> t, page |-> p, err |-> "", ran |-> <<>>, req |-> {},
     stackLimit |-> stackLimit, picker |-> ClosedPicker]

Put(W, v, f, x) == [W EXCEPT !.vi[v][f] = x]

(***************************************************************************)
(* CSS: the value a browser computes for background-color.                 *)
(***************************************************************************)
\* The colour a declaration value denotes once every var() is substituted by
\* the page's custom property, or Null when it is invalid at computed-value
\* time: a reference to a property that is not set, to a property whose own
\* value is invalid, or a cycle of references.  light-dark() takes its first
\* colour (the page declares no dark colour scheme) and is invalid when
\* either argument is.  A colour made by oklch() is Oklch whatever its origin.
RECURSIVE CssResolve(_, _, _)
CssResolve(p, text, seen) ==
    LET sub(x) == IF x \notin DOMAIN p \/ x \in seen THEN Null
                  ELSE CssResolve(p, p[x], seen \cup {x})
    IN  CASE text.k = "hex" -> hexToRgb(text.d)
          [] text.k = "rgb" -> IF Len(text.d) = 4 THEN text.d
                               ELSE text.d \o <<AlphaOne>>
          [] text.k = "var" -> sub(text.n[1])
          [] text.k = "ld"  -> IF sub(text.n[2]) = Null THEN Null
                               ELSE sub(text.n[1])
          [] text.k = "oklch" -> IF \E j \in 1..Len(text.n) : sub(text.n[j]) = Null
                                 THEN Null ELSE Oklch
          [] OTHER -> Null

\* getComputedStyle(el).backgroundColor for an element whose style holds
\* text: 'rgb(r, g, b)' for an opaque colour, 'rgba(r, g, b, a)' otherwise,
\* 'oklch(l c h)' for a colour in that space, and the initial value
\* 'rgba(0, 0, 0, 0)' when the declaration is invalid
ComputedBackgroundColor(p, text) ==
    LET c == CssResolve(p, text, {})
    IN  IF c = Null THEN Txt("rgb", <<0, 0, 0, 0>>, <<>>)
        ELSE IF c = Oklch THEN Txt("oklch", <<>>, <<>>)
        ELSE IF c[4] = AlphaOne THEN Txt("rgb", SubSeq(c, 1, 3), <<>>)
        ELSE Txt("rgb", c, <<>>)

\* a number as it is written: the integer before the point and the digits
\* after it, none for a number written without a point
Num(i, f) == [i |-> i, f |-> f]

RECURSIVE DigitsValue(_)
\* Number of a run of digits
DigitsValue(f) ==
    IF f = <<>> THEN 0 ELSE 10 * DigitsValue(SubSeq(f, 1, Len(f) - 1)) + f[Len(f)]

RECURSIVE Pow10(_)
Pow10(n) == IF n = 0 THEN 1 ELSE 10 * Pow10(n - 1)

\* the run of digits a written number ends with
LastDigits(num) == IF num.f = <<>> THEN num.i ELSE DigitsValue(num.f)

\* Math.round(parseFloat(v) * 255)
ParseFloatTimes255(num) ==
    RoundDiv(255 * (num.i * Pow10(Len(num.f)) + DigitsValue(num.f)), Pow10(Len(num.f)))

\* 'color(srgb r g b)' and, with a fourth number, 'color(srgb r g b / a)'
SrgbText(d) == Txt("srgb", d, <<>>)

\* the first pattern, /(?:rgba?\()?(\d+)[\s,]+(\d+)[\s,]+(\d+)(?:[\s,]+([\d.]+))?\)?/,
\* matches anywhere in the text: in 'color(srgb r g b)' it finds three runs of
\* digits separated by blanks when g is written without a point, and these
\* are the digits r ends with, g, and the digits b starts with; the run is
\* followed by a point, by ' /' or by ')', so that there is no fourth number
SrgbDigitsMatch(d) ==
    IF d[2].f = <<>> THEN <<LastDigits(d[1]), d[2].i, d[3].i>> ELSE Null

\* rgbParenthesisToRgb: the three numbers of 'rgb(r, g, b)' and the fourth of
\* 'rgba(r, g, b, a)', or alpha 1; a text 'color(srgb r g b)' in which the
\* first pattern finds no three numbers is read by the second pattern, each
\* component times 255 and rounded; null for a text without three numbers
rgbParenthesisToRgb(text) ==
    IF text.k = "rgb"
    THEN SubSeq(text.d, 1, 3) \o <<IF Len(text.d) = 4 THEN text.d[4] ELSE AlphaOne>>
    ELSE IF text.k = "srgb"
    THEN IF SrgbDigitsMatch(text.d) # Null
         THEN SrgbDigitsMatch(text.d) \o <<AlphaOne>>
         ELSE <<ParseFloatTimes255(text.d[1]), ParseFloatTimes255(text.d[2]),
                ParseFloatTimes255(text.d[3]),
                IF Len(text.d) = 4 THEN ParseFloatTimes255(text.d[4]) ELSE AlphaOne>>
    ELSE Null

parseColor(text) ==
    IF text.k = "empty" THEN Null
    ELSE IF text.k = "hex" THEN hexToRgb(text.d)
    ELSE rgbParenthesisToRgb(text)

\* value.includes('var')
IncludesVar(text) == text.k \in {"var", "ld"} \/ (text.k = "oklch" /\ text.n # <<>>)

\* the names matched by /var\((--[-\w]+)\)/g
VarMatches(text) == IF IncludesVar(text) THEN text.n ELSE <<>>

\* an output rule that does not ask whether the variable has a value
outputRuleWithoutEmptyValue(r) ==
    /\ \/ Truthy(r.saveExplicitRgbInOutput)
       \/ ~Truthy(r.useIndirectDefinition)
       \/ r.value # r.baseValue
    /\ ~rgbEqual(r.rgb, r.baseColor)

\* valueShouldGoInOutput: the value is saved in the output when the colour
\* differs from the base colour and the variable is saved as explicit colour,
\* is not indirect, has no value, or has a value other than the base value
valueShouldGoInOutput(r) ==
    /\ \/ Truthy(r.saveExplicitRgbInOutput)
       \/ ~Truthy(r.useIndirectDefinition)
       \/ r.value = EmptyText
       \/ r.value # r.baseValue
    /\ ~rgbEqual(r.rgb, r.baseColor)

(***************************************************************************)
(* VariableInfo.                                                           *)
(***************************************************************************)
valueStringOutput(r) ==
    IF Truthy(r.useIndirectDefinition) /\ ~Truthy(r.saveExplicitRgbInOutput)
    THEN r.value
    ELSE rgbToHexString(r.rgb)

\* a getCalculatedColorRgb that forgets the colour options
getCalculatedColorRgbNoOptions(W, v) ==
    parseColor(ComputedBackgroundColor(W.page, W.vi[v].colorExplicitEl))

getCalculatedColorRgb(W, v) ==
    LET r == W.vi[v]
        computedRgb == parseColor(ComputedBackgroundColor(W.page, r.colorExplicitEl))
        inv == IF Truthy(r.optionInvert) THEN invertedColor(computedRgb)
               ELSE computedRgb
    IN  IF ~Truthy(r.saveExplicitRgbInOutput) THEN computedRgb
        ELSE IF r.optionHueRotate = <<>> /\ r.optionSaturationFactor = <<>>
                /\ r.optionLightnessFactor = <<>>
        THEN inv
        ELSE adjustHsl(inv, r.optionHueRotate, r.optionSaturationFactor,
                       r.optionLightnessFactor)

\* a dependsOnVars setter that pushes to the new sources and never filters
\* the former ones
SetDependsOnVarsNoFilter(W, v, new) ==
    [W EXCEPT !.vi = [x \in Vars |->
        [W.vi[x] EXCEPT
            !.affectsVars = IF x \in {new[i] : i \in 1..Len(new)}
                               /\ v \notin {W.vi[x].affectsVars[i] : i \in 1..Len(W.vi[x].affectsVars)}
                            THEN Append(@, v) ELSE @,
            !.dependsOnVars = IF x = v THEN new ELSE @]]]

\* the setter of dependsOnVars: the new array is stored, this variable is
\* pushed to the affectsVars of every new source that lacks it and filtered
\* out of the affectsVars of every former source that is no source any more
SetDependsOnVars(W, v, new) ==
    LET old == W.vi[v].dependsOnVars
        pushed(x) == IF x \in Range(new) /\ v \notin Range(W.vi[x].affectsVars)
                     THEN Append(W.vi[x].affectsVars, v)
                     ELSE W.vi[x].affectsVars
        filtered(x) == IF x \in Range(old) \ Range(new)
                       THEN SelectSeq(pushed(x), LAMBDA sv : sv # v)
                       ELSE pushed(x)
    IN  [W EXCEPT !.vi = [x \in Vars |->
            [W.vi[x] EXCEPT !.affectsVars = filtered(x),
                            !.dependsOnVars = IF x = v THEN new ELSE @]]]

updateDependencyVariables(W, v) ==
    IF W.err # "" THEN W
    ELSE IF W.vi[v].indirectDefinition = EmptyText
            \/ ~Truthy(W.vi[v].useIndirectDefinition)
    THEN SetDependsOnVars(W, v, <<>>)
    ELSE SetDependsOnVars(W, v,
            SelectSeq(VarMatches(W.vi[v].indirectDefinition),
                      LAMBDA x : x \in Vars))

\* updateVariableOnPage, the part pageRules.setProperty(variable.name,
\* varValue): the output string of the variable is written to the page's
\* custom property
setPropertyOnPage(W, v) ==
    LET varValue == valueStringOutput(W.vi[v])
    IN  IF W.vi[v].rgb = Null \/ varValue = EmptyText THEN W
        ELSE [W EXCEPT !.page[v] = varValue]

\* ContrastVariableInfo.UpdateContrast(rgb) of the i-th contrast link of the
\* row variable: nothing while the link has no variable or the variable no
\* colour; a given rgb becomes the colour the contrast is calculated to; the
\* contrast is calculated, and unless it is undefined the display is set
UpdateContrast(W, row, i, rgb) ==
    LET cv == W.vi[row].contrastVariables[i]
        contrastColorRgb == IF rgb # Null THEN rgb ELSE cv.contrastColorRgb
        contrast == colorContrast(W.vi[cv.variable].rgb, contrastColorRgb)
    IN  IF cv.variable = "" THEN W
        ELSE IF W.vi[cv.variable].rgb = Null THEN W
        ELSE [W EXCEPT !.vi[row].contrastVariables[i] =
                 [cv EXCEPT !.contrastColorRgb = contrastColorRgb,
                            !.contrast = contrast,
                            !.display = IF contrast = Null THEN @
                                        ELSE ContrastClass(contrast, cv.minContrast)]]

\* variable.contrastVariables.forEach((cv) => cv.UpdateContrast(variable.rgb))
\* from index i on
RECURSIVE UpdateContrastVariables(_, _, _)
UpdateContrastVariables(W, v, i) ==
    IF i > Len(W.vi[v].contrastVariables) THEN W
    ELSE UpdateContrastVariables(UpdateContrast(W, v, i, W.vi[v].rgb), v, i + 1)

\* variable.contrastVariableOfOtherColors.forEach((cv) => cv.UpdateContrast()):
\* the links of the rows from rows on that have v as their variable
RECURSIVE UpdateContrastOfOtherColors(_, _, _, _)
UpdateContrastOfOtherColors(W, v, rows, i) ==
    IF rows = <<>> THEN W
    ELSE IF i > Len(W.vi[rows[1]].contrastVariables)
    THEN UpdateContrastOfOtherColors(W, v, Tail(rows), 1)
    ELSE UpdateContrastOfOtherColors(
             IF W.vi[rows[1]].contrastVariables[i].variable = v
             THEN UpdateContrast(W, rows[1], i, Null) ELSE W,
             v, rows, i + 1)

\* The methods below call each other in a circle (a change of one variable
\* updates its dependents, which are changed in turn).  Call(world, f, args)
\* is the call of the method named f: as in JavaScript the arguments are
\* evaluated once, before the call; it is defined after the methods.  A world
\* that holds an exception is passed on unchanged by every method: the
\* exception unwinds the stack.
RECURSIVE Call(_, _, _)

\* updateVariableOnPage: nothing for a variable without colour; the output
\* string of the variable is written to the page's custom property, then
\* the contrast links of the variable and those to the variable are updated,
\* and the colour picker is told that the variable may have changed
updateVariableOnPage(W, v, depth) ==
    IF W.vi[v].rgb = Null THEN W
    ELSE Call(UpdateContrastOfOtherColors(
                  UpdateContrastVariables(setPropertyOnPage(W, v), v, 1),
                  v, VariableOrder, 1),
              "updateColorIfVariableWasChangedOutside", <<v, depth>>)

\* affectsVars.forEach((v) => v.updateValueFromAffectors()) from index i on
forEachAffected(W, affects, i, depth) ==
    IF i > Len(affects) \/ W.err # "" THEN W
    ELSE Call(Call(W, "updateValueFromAffectors", <<affects[i], depth>>),
              "forEachAffected", <<affects, i + 1, depth>>)

updateAffectedColors(W, v, depth) ==
    IF W.err # "" THEN W
    ELSE Call(W, "forEachAffected", <<W.vi[v].affectsVars, 1, depth>>)

\* colorChanged, the function behind the throttle: the page is written, then
\* every variable of affectsVars is updated.  depth counts the colorChanged
\* calls on the stack.
colorChanged(W, v, depth) ==
    IF W.err # "" THEN W
    ELSE IF depth > W.stackLimit THEN [W EXCEPT !.err = "RangeError"]
    ELSE Call(updateVariableOnPage([W EXCEPT !.ran = Append(@, v)], v, depth),
              "updateAffectedColors", <<v, depth>>)

\* the throttle after functionToThrottle has returned: the cooldown starts
\* and the timer for nextPossibleCall is set.  All these timers have the same
\* delay, so they expire in the order set.
startCooldown(W, v) ==
    IF W.err # "" THEN W
    ELSE [W EXCEPT !.vi[v].isInCooldown = TRUE,
                   !.vi[v].callAfterThrottle = FALSE,
                   !.timers = Append(@, v)]

\* a throttle that does not note the calls made in the cooldown
colorChangedForgetful(W, v, depth) ==
    IF W.err # "" THEN W
    ELSE IF W.vi[v].isInCooldown
    THEN [W EXCEPT !.req = @ \cup {v}]
    ELSE Call(Call([W EXCEPT !.req = @ \cup {v}], "colorChanged", <<v, depth + 1>>),
              "startCooldown", <<v>>)

\* the function returned by throttle(colorChanged, 20): in the cooldown the
\* call is only noted; otherwise colorChanged runs first
colorChangedThrottled(W, v, depth) ==
    IF W.err # "" THEN W
    ELSE IF W.vi[v].isInCooldown
    THEN [W EXCEPT !.req = @ \cup {v}, !.vi[v].callAfterThrottle = TRUE]
    ELSE Call(Call([W EXCEPT !.req = @ \cup {v}], "colorChanged", <<v, depth + 1>>),
              "startCooldown", <<v>>)

enableIndirectDefinition(W, v, enable, depth) ==
    IF W.err # "" THEN W
    ELSE Call(Put(W, v, "colorExplicitEl",
                  IF enable THEN W.vi[v].dependsOnVarsEl ELSE EmptyText),
              "colorChangedThrottled", <<v, depth>>)

\* the end of a property setter:
\* if (model.useIndirectDefinition) model.updateValueFromAffectors()
updateIfIndirect(W, v, depth) ==
    IF W.err = "" /\ Truthy(W.vi[v].useIndirectDefinition)
    THEN Call(W, "updateValueFromAffectors", <<v, depth>>)
    ELSE W

\* the setter defined by addColorOptionControlAndBind for the property p:
\* nothing when propValue === newValue, which NaN never is
SetProperty(W, v, p, newValue, depth) ==
    IF W.err # "" \/ (W.vi[v][p] = newValue /\ ~IsNaN(newValue)) THEN W
    ELSE IF p = "useIndirectDefinition"
    THEN Call(Call(Call(Put(W, v, p, newValue), "enableIndirectDefinition",
                        <<v, Truthy(newValue), depth>>),
                   "updateDependencyVariables", <<v>>),
              "updateIfIndirect", <<v, depth>>)
    ELSE Call(Put(W, v, p, newValue), "updateIfIndirect", <<v, depth>>)

updateValueFromAffectors(W, v, depth) ==
    IF W.err # "" THEN W
    ELSE IF ~Truthy(W.vi[v].useIndirectDefinition) \/ W.vi[v].dependsOnVars = <<>>
    THEN W
    ELSE Call(W, "setColor", <<v, getCalculatedColorRgb(W, v), FALSE, <<>>, depth>>)

\* a setColor that stores and notifies without comparing the colours
storeColorAlways(W, v, rgb, depth) ==
    IF W.err # "" THEN W
    ELSE IF rgb = Null THEN [W EXCEPT !.err = "TypeError"]
    ELSE Call(Put(W, v, "rgb", rgb), "colorChangedThrottled", <<v, depth>>)

\* a setColor that stores the colour and notifies nobody
storeColorSilent(W, v, rgb, depth) ==
    IF W.err # "" \/ rgbEqual(W.vi[v].rgb, rgb) THEN W
    ELSE IF rgb = Null THEN [W EXCEPT !.err = "TypeError"]
    ELSE Put(W, v, "rgb", rgb)

\* the end of setColor: nothing more when rgb is the present colour, else
\* the colour is stored and the throttled notification is called; [...rgb]
\* throws a TypeError when rgb is null
storeColor(W, v, rgb, depth) ==
    IF W.err # "" \/ rgbEqual(W.vi[v].rgb, rgb) THEN W
    ELSE IF rgb = Null THEN [W EXCEPT !.err = "TypeError"]
    ELSE Call(Put(W, v, "rgb", rgb), "colorChangedThrottled", <<v, depth>>)

\* setColor(rgb, alsoSetAsBase, useIndirectDefinition): useIndirectDefinition
\* is <<TRUE>>, <<FALSE>> or <<>> (null: the property is left alone)
setColor(W, v, rgb, alsoSetAsBase, useIndirectDefinition, depth) ==
    IF W.err # "" THEN W
    ELSE IF alsoSetAsBase /\ rgb = Null THEN [W EXCEPT !.err = "TypeError"]
    ELSE IF useIndirectDefinition # <<>>
    THEN Call(Call(IF alsoSetAsBase THEN Put(W, v, "baseColor", rgb) ELSE W,
                   "SetProperty",
                   <<v, "useIndirectDefinition", useIndirectDefinition, depth>>),
              "storeColor", <<v, rgb, depth>>)
    ELSE Call(IF alsoSetAsBase THEN Put(W, v, "baseColor", rgb) ELSE W,
              "storeColor", <<v, rgb, depth>>)

\* setIndirectDefition, the part if (updateValueFromDefinition) { ... }
updateFromDefinition(W, v, updateValueFromDefinition, depth) ==
    IF W.err = "" /\ updateValueFromDefinition
    THEN Call(Call(Call(W, "enableIndirectDefinition", <<v, TRUE, depth>>),
                   "updateDependencyVariables", <<v>>),
              "updateValueFromAffectors", <<v, depth>>)
    ELSE W

\* setIndirectDefition, the part
\* if (useIndirectDefinition) this.setColor(this.getCalculatedColorRgb(), alsoSetAsBase, true)
setCalculatedColor(W, v, useIndirectDefinition, alsoSetAsBase, depth) ==
    IF W.err = "" /\ useIndirectDefinition
    THEN Call(W, "setColor",
              <<v, getCalculatedColorRgb(W, v), alsoSetAsBase, <<TRUE>>, depth>>)
    ELSE W

\* setIndirectDefition(v, alsoSetAsBase) with the definition text for v
setIndirectDefition(W, v, text, alsoSetAsBase, depth) ==
    IF W.err # "" THEN W
    ELSE Call(Call(Call(Call([W EXCEPT !.vi[v].dependsOnVarsEl = text,
                                       !.vi[v].indirectDefinition = text],
                             "SetProperty",
                             <<v, "useIndirectDefinition", <<text # EmptyText>>, depth>>),
                        "updateFromDefinition",
                        <<v, /\ text # EmptyText
                             /\ Truthy(W.vi[v].useIndirectDefinition)
                             /\ W.vi[v].indirectDefinition # text,
                          depth>>),
                   "setCalculatedColor", <<v, text # EmptyText, alsoSetAsBase, depth>>),
              "SetProperty", <<v, "saveExplicitRgbInOutput", <<FALSE>>, depth>>)

setValue(W, v, value, alsoSetAsBaseValue, depth) ==
    IF W.err # "" THEN W
    ELSE IF value # EmptyText /\ ~IncludesVar(value) /\ parseColor(value) # Null
    THEN Call([W EXCEPT !.vi[v].value = value,
                        !.vi[v].baseValue = IF alsoSetAsBaseValue THEN value ELSE @],
              "setColor", <<v, parseColor(value), alsoSetAsBaseValue, <<FALSE>>, depth>>)
    ELSE Call([W EXCEPT !.vi[v].value = value,
                        !.vi[v].baseValue = IF alsoSetAsBaseValue THEN value ELSE @],
              "setIndirectDefition", <<v, value, alsoSetAsBaseValue, depth>>)

\* ColorPicker: the function behind the throttle of the preview.  Nothing
\* without a colour; the preview and the controls are not part of the state;
\* the colour of the picker is set on the variable that is edited, if any.
updatePreview(W, depth) ==
    IF W.err # "" THEN W
    ELSE IF W.picker.rgb = Null \/ IsNaNColor(W.picker.rgb) THEN W
    ELSE IF W.picker.currentColorVariable = "" THEN W
    ELSE Call(W, "setColor",
              <<W.picker.currentColorVariable, W.picker.rgb, FALSE, <<FALSE>>, depth>>)

\* the throttle after updatePreview has returned: the cooldown starts and
\* the timer for nextPossibleCall is set
pickerStartCooldown(W) ==
    IF W.err # "" THEN W
    ELSE [W EXCEPT !.picker.isInCooldown = TRUE,
                   !.picker.callAfterThrottle = FALSE,
                   !.picker.timers = Append(@, Armed)]

\* updatePreviewThrottled, the function returned by throttle(..., 50)
updatePreviewThrottled(W, depth) ==
    IF W.err # "" THEN W
    ELSE IF W.picker.isInCooldown THEN [W EXCEPT !.picker.callAfterThrottle = TRUE]
    ELSE Call(Call(W, "updatePreview", <<depth>>), "pickerStartCooldown", <<>>)

\* setColorByRgb(rgb): the picker keeps its alpha for a colour without one
setColorByRgb(W, rgb) ==
    [W EXCEPT !.picker.rgb =
        IF Len(rgb) < 4
        THEN rgb \o <<IF @ = Null THEN AlphaOne ELSE @[4]>>
        ELSE rgb]

\* setColorAndSetControls(rgb): setColorByRgb, then
\* setControlsAccordingToVariables, which ends with updatePreviewThrottled()
setColorAndSetControls(W, rgb, depth) ==
    IF W.err # "" THEN W
    ELSE IF rgb = Null \/ rgbEqual(W.picker.rgb, rgb) THEN W
    ELSE Call(setColorByRgb(W, rgb), "updatePreviewThrottled", <<depth>>)

updateColorIfVariableWasChangedOutside(W, v, depth) ==
    IF W.err # "" THEN W
    ELSE IF v # W.picker.currentColorVariable \/ rgbEqual(W.vi[v].rgb, W.picker.rgb)
    THEN W
    ELSE Call(W, "setColorAndSetControls", <<W.vi[v].rgb, depth>>)

\* toggleDisplay(false): the picker is hidden and edits no variable
toggleDisplay(W, show) ==
    IF show THEN W ELSE [W EXCEPT !.picker.currentColorVariable = ""]

\* setColorVariable(colorVar): nothing for a variable without colour; else
\* the picker edits the variable, takes its colour and is shown
setColorVariable(W, colorVar) ==
    IF W.vi[colorVar].rgb = Null THEN W
    ELSE Call([W EXCEPT !.picker.currentColorVariable = colorVar],
              "setColorAndSetControls", <<W.vi[colorVar].rgb, 0>>)

\* editColorInColorPicker(varName); varName is "" for null.  A click on the
\* variable that is edited hides the picker.
editColorInColorPicker(W, varName) ==
    IF varName = "" \/ W.picker.currentColorVariable = varName
    THEN toggleDisplay(W, FALSE)
    ELSE setColorVariable(W, varName)

\* the trailing call of nextPossibleCall has returned: the timer is set again
rearm(W, v) ==
    IF W.err # "" THEN W ELSE [W EXCEPT !.timers = Append(@, v)]

\* the same for the picker's throttle
pickerRearm(W) ==
    IF W.err # "" THEN W ELSE [W EXCEPT !.picker.timers = Append(@, Armed)]

Call(world, f, args) ==
    CHOOSE result \in {
        CASE f = "colorChanged" -> colorChanged(W, a[1], a[2])
          [] f = "forEachAffected" -> forEachAffected(W, a[1], a[2], a[3])
          [] f = "updateAffectedColors" -> updateAffectedColors(W, a[1], a[2])
          [] f = "startCooldown" -> startCooldown(W, a[1])
          [] f = "colorChangedThrottled" -> colorChangedThrottled(W, a[1], a[2])
          [] f = "enableIndirectDefinition" -> enableIndirectDefinition(W, a[1], a[2], a[3])
          [] f = "updateDependencyVariables" -> updateDependencyVariables(W, a[1])
          [] f = "updateIfIndirect" -> updateIfIndirect(W, a[1], a[2])
          [] f = "SetProperty" -> SetProperty(W, a[1], a[2], a[3], a[4])
          [] f = "updateValueFromAffectors" -> updateValueFromAffectors(W, a[1], a[2])
          [] f = "storeColor" -> storeColor(W, a[1], a[2], a[3])
          [] f = "setColor" -> setColor(W, a[1], a[2], a[3], a[4], a[5])
          [] f = "updateFromDefinition" -> updateFromDefinition(W, a[1], a[2], a[3])
          [] f = "setCalculatedColor" -> setCalculatedColor(W, a[1], a[2], a[3], a[4])
          [] f = "setIndirectDefition" -> setIndirectDefition(W, a[1], a[2], a[3], a[4])
          [] f = "setValue" -> setValue(W, a[1], a[2], a[3], a[4])
          [] f = "rearm" -> rearm(W, a[1])
          [] f = "updatePreview" -> updatePreview(W, a[1])
          [] f = "pickerStartCooldown" -> pickerStartCooldown(W)
          [] f = "pickerRearm" -> pickerRearm(W)
          [] f = "updatePreviewThrottled" -> updatePreviewThrottled(W, a[1])
          [] f = "setColorAndSetControls" -> setColorAndSetControls(W, a[1], a[2])
          [] f = "updateColorIfVariableWasChangedOutside" ->
                 updateColorIfVariableWasChangedOutside(W, a[1], a[2])
        : W \in {world}, a \in {args}} : TRUE

(***************************************************************************)
(* The contrast repair.                                                    *)
(***************************************************************************)
SetMin(S) == CHOOSE x \in S : \A y \in S : x <= y
SetMax(S) == CHOOSE x \in S : \A y \in S : x >= y

RECURSIVE SumLuminance(_, _, _)
SumLuminance(W, links, i) ==
    IF i > Len(links) THEN 0
    ELSE relativeLuminance(W.vi[links[i].variable].rgb) + SumLuminance(W, links, i + 1)

\* new ContrastVariableInfo(variable, minContrast): the fields are set only
\* when minContrast is a number; otherwise variable stays undefined
ContrastVariableInfo(variable, minContrast, typeof) ==
    IF typeof = "number"
    THEN [variable |-> variable, minContrast |-> minContrast, typeof |-> typeof]
    ELSE [variable |-> "", minContrast |-> 0, typeof |-> "undefined"]

\* a test that takes the contrast for sufficient only when no luminance is
\* blocked
sufficientOnlyUnblocked(luminance, unblocked, lo, hi) == unblocked

\* the test before 'contrast is already sufficient, color will not be
\* adjusted': no luminance is blocked, or the luminance is outside the range
contrastIsSufficient(luminance, unblocked, lo, hi) ==
    unblocked \/ luminance <= lo \/ luminance >= hi

\* fixContrastWithLightness(varToAdjust, onlyToVar): contrastToVariables is
\* <<onlyToVar>> or the contrast list of varToAdjust; reading the rgb of a
\* link whose variable is undefined throws a TypeError
fixContrastWithLightness(W, varToAdjust, contrastToVariables, depth) ==
    LET n == Len(contrastToVariables)
        block(i) == neededLuminanceForContrast(
                        relativeLuminance(W.vi[contrastToVariables[i].variable].rgb),
                        contrastToVariables[i].minContrast)
        blocking == {i \in 1..n : block(i)[1] # block(i)[2]}
        \* luminanceMean < 0.18, with luminanceMean the sum divided by n
        dark == SumLuminance(W, contrastToVariables, 1) < LumDarkMean * n
        luminanceOfColorToAdjust == relativeLuminance(W.vi[varToAdjust].rgb)
        lo == SetMin({block(i)[1] : i \in blocking})
        hi == SetMax({block(i)[2] : i \in blocking})
        avoid0 == Max2(lo - LumPad, 0)
        avoid1 == Min2(hi + LumPad, LumOne)
        rgb == W.vi[varToAdjust].rgb
    IN  IF n = 0 THEN W
        ELSE IF \E i \in 1..n : contrastToVariables[i].variable \notin Vars
        THEN [W EXCEPT !.err = "TypeError"]
        \* relativeLuminance reads rgb[0] of a variable that has no colour
        ELSE IF \/ \E i \in 1..n : W.vi[contrastToVariables[i].variable].rgb = Null
                \/ rgb = Null
        THEN [W EXCEPT !.err = "TypeError"]
        ELSE IF contrastIsSufficient(luminanceOfColorToAdjust, blocking = {},
                                     IF blocking = {} THEN 0 ELSE lo,
                                     IF blocking = {} THEN 0 ELSE hi)
        THEN W
        ELSE IF avoid0 < 0 /\ avoid1 > LumOne
        THEN Call(W, "setColor",
                  <<varToAdjust, IF dark THEN <<255, 255, 255>> ELSE <<0, 0, 0>>,
                    FALSE, <<FALSE>>, depth>>)
        ELSE Call(W, "setColor",
                  <<varToAdjust,
                    setRelativeLuminance(rgb,
                        IF dark THEN (IF avoid1 <= LumOne THEN avoid1 ELSE avoid0)
                        ELSE (IF avoid0 >= 0 THEN avoid0 ELSE avoid1)),
                    FALSE, <<FALSE>>, depth>>)

(***************************************************************************)
(* Construction: initializeVariables.                                      *)
(***************************************************************************)
\* the custom properties the page's stylesheet declares on :root, in the
\* order of the rule; they are the base values of the editor
BaseCss ==
    << <<"bg", HexText(<<2, 0, 2, 0, 2, 0>>)>>,
       <<"fg", HexText(<<15, 15, 15, 15, 15, 15>>)>>,
       <<"bg--inverted", HexText(<<13, 15, 13, 15, 13, 15>>)>> >>

BlankInfo ==
    [ value |-> EmptyText, baseValue |-> EmptyText, rgb |-> Null,
      baseColor |-> Null, indirectDefinition |-> EmptyText,
      dependsOnVarsEl |-> EmptyText, colorExplicitEl |-> EmptyText,
      useIndirectDefinition |-> <<>>, saveExplicitRgbInOutput |-> <<>>,
      optionInvert |-> <<>>, optionHueRotate |-> <<>>,
      optionSaturationFactor |-> <<>>, optionLightnessFactor |-> <<>>,
      dependsOnVars |-> <<>>, affectsVars |-> <<>>,
      contrastVariables |-> <<>>,
      isInCooldown |-> FALSE, callAfterThrottle |-> FALSE ]

\* applyTheme for a theme of base values: setValue(v, true) for every
\* variable of the theme
RECURSIVE applyTheme(_, _, _, _)
applyTheme(W, theme, setAsBaseValues, i) ==
    IF i > Len(theme) THEN W
    ELSE applyTheme(Call(W, "setValue", <<theme[i][1], theme[i][2], setAsBaseValues, 0>>),
                    theme, setAsBaseValues, i + 1)

\* the variable whose name is x followed by '--inverted' is defined as the
\* inverted colour of x
SetInverted(W, v, sourceVarName) ==
    Call(Call(Call(W, "setValue", <<v, VarText(sourceVarName), FALSE, 0>>),
              "SetProperty", <<v, "optionInvert", <<TRUE>>, 0>>),
         "SetProperty", <<v, "saveExplicitRgbInOutput", <<TRUE>>, 0>>)

\* the contrast link processVariableTableRow makes of a name in the contrast
\* column: new ContrastVariableInfo(contrastVarName, contrastElement) with
\* its minContrast; the variable is set by initializeVariables
NewContrastVariable(c) ==
    [variableName |-> c.variable, variable |-> "", minContrast |-> c.minContrast,
     contrastColorRgb |-> Null, contrast |-> Null, display |-> ""]

\* initializeVariables, for the contrast links of v from index i on: the
\* variable of the link is looked up and the contrast is calculated to the
\* colour of v
RECURSIVE SetContrastVariables(_, _, _)
SetContrastVariables(W, v, i) ==
    IF i > Len(W.vi[v].contrastVariables) THEN W
    ELSE LET name == W.vi[v].contrastVariables[i].variableName
         IN  SetContrastVariables(
                 IF name \notin Vars THEN W
                 ELSE UpdateContrast(
                          [W EXCEPT !.vi[v].contrastVariables[i].variable = name],
                          v, i, W.vi[v].rgb),
                 v, i + 1)

\* initializeVariables, the loop over the variables from index i on
RECURSIVE forEachVariable(_, _)
forEachVariable(W, i) ==
    IF i > Len(VariableOrder) THEN W
    ELSE LET v == VariableOrder[i]
         IN  forEachVariable(
                 SetContrastVariables(
                     IF v = "bg--inverted" THEN SetInverted(W, v, "bg") ELSE W,
                     v, 1),
                 i + 1)

\* initializeVariables on a page whose stylesheet declares baseCss
initializeVariablesOn(baseCss) ==
    forEachVariable(
        applyTheme(World([v \in Vars |->
                             [BlankInfo EXCEPT !.contrastVariables =
                                 [i \in 1..Len(ContrastVariables[v]) |->
                                     NewContrastVariable(ContrastVariables[v][i])]]],
                         <<>>,
                         [i \in {baseCss[j][1] : j \in 1..Len(baseCss)} |->
                             (CHOOSE e \in Range(baseCss) : e[1] = i)[2]],
                         MaxDepth),
                   baseCss, TRUE, 1),
        1)

initializeVariables == initializeVariablesOn(BaseCss)

(***************************************************************************)
(* The state machine.                                                      *)
(***************************************************************************)
\* texts a user types into the definition field of a variable
Values ==
    {HexText(<<0, 0, 0, 0, 0, 0>>), HexText(<<15, 15, 15>>)}
    \cup {VarText(x) : x \in Vars} \cup {VarText("undefined-var")}
    \cup {LdText("bg", "fg"), OklchText("bg")}

\* colours chosen in the colour picker
Palette == {<<0, 0, 0, AlphaOne>>, <<255, 255, 255, AlphaOne>>}

Checkboxes == {"useIndirectDefinition", "saveExplicitRgbInOutput", "optionInvert"}

\* how deep the calls can nest before the stack is exhausted depends on the
\* engine and on the frames already on the stack
StackLimits == {MaxDepth, MaxDepth + 1}

\* the present state as the world a handler starts in
Now(stackLimit) == [World(vi, timers, page, stackLimit) EXCEPT !.picker = picker]

\* A timeout of the picker's throttle (50 ms) that a handler has set expires
\* after every timeout of the variables' throttles (20 ms) that is pending
\* when the handler ends.
SettleTimers(W) ==
    [i \in 1..Len(W.picker.timers) |->
        IF W.picker.timers[i] = Armed THEN Len(W.timers) ELSE W.picker.timers[i]]

\* no colour is under conversion
NoConversion == [rgb |-> Null, hsvSl |-> Null, by |-> "", back |-> Null,
                 text |-> EmptyText]

\* what a handler leaves behind is the next state, also when an exception
\* ended it
Step(op, v, arg, W) ==
    /\ vi' = W.vi
    /\ timers' = W.timers
    /\ page' = W.page
    /\ err' = W.err
    /\ last' = [op |-> op, v |-> v, arg |-> arg, ran |-> W.ran, req |-> W.req]
    /\ inOutTextarea' = inOutTextarea
    /\ conv' = conv
    /\ holdVariable' = holdVariable
    /\ picker' = [W.picker EXCEPT !.timers = SettleTimers(W)]

Init ==
    /\ vi = initializeVariables.vi
    /\ timers = initializeVariables.timers
    /\ page = initializeVariables.page
    /\ err = initializeVariables.err
    /\ ops = 0
    /\ turn = 0
    /\ inOutTextarea = <<>>
    /\ holdVariable = ""
    /\ picker = ClosedPicker
    /\ conv = NoConversion
    /\ last = [op |-> "initializeVariables", v |-> "", arg |-> <<>>,
               ran |-> initializeVariables.ran, req |-> initializeVariables.req]

\* the change event of the definition field: setValue(e.target.value)
SetValue(v, value) ==
    /\ ops < MaxOps
    /\ ops' = ops + 1
    /\ turn' = turn
    /\ \E stackLimit \in StackLimits :
          Step("setValue", v, value,
               Call(Now(stackLimit), "setValue", <<v, value, FALSE, 0>>))

\* the colour picker sets the colour of its variable: setColor(rgb)
SetColor(v, rgb) ==
    /\ ops < MaxOps
    /\ ops' = ops + 1
    /\ turn' = turn
    /\ \E stackLimit \in StackLimits :
          Step("setColor", v, rgb,
               Call(Now(stackLimit), "setColor", <<v, rgb, FALSE, <<FALSE>>, 0>>))

\* the change event of a checkbox bound to the property p
SetCheckbox(v, p) ==
    /\ ops < MaxOps
    /\ ops' = ops + 1
    /\ turn' = turn
    /\ \E stackLimit \in StackLimits :
          Step("setCheckbox", v, p,
               Call(Now(stackLimit), "SetProperty", <<v, p, <<~Truthy(vi[v][p])>>, 0>>))

\* the change event of the number field bound to optionHueRotate
SetHueRotate(v, deg) ==
    /\ ops < MaxOps
    /\ ops' = ops + 1
    /\ turn' = turn
    /\ \E stackLimit \in StackLimits :
          Step("setHueRotate", v, deg,
               Call(Now(stackLimit), "SetProperty", <<v, "optionHueRotate", <<deg>>, 0>>))

\* the button that repairs the contrast of a row variable to all variables of
\* its contrast list
FixContrast(v) ==
    /\ ops < MaxOps
    /\ ops' = ops + 1
    /\ turn' = turn
    /\ \E stackLimit \in StackLimits :
          Step("fixContrast", v, ContrastVariables[v],
               fixContrastWithLightness(Now(stackLimit), v, ContrastVariables[v], 0))

\* the link a contrast cell's button passes as onlyToVar:
\* new ContrastVariableInfo(rowVariableInfo, contrastVariableInfo.minContrast)
OnlyToVar(row, i) ==
    << ContrastVariableInfo(row, ContrastVariables[row][i].minContrast,
                            ContrastVariables[row][i].typeof) >>

\* the button in a contrast cell: the contrast variable is adjusted against
\* the row variable
FixContrastOf(row, i) ==
    /\ ops < MaxOps
    /\ ops' = ops + 1
    /\ turn' = turn
    /\ \E stackLimit \in StackLimits :
          Step("fixContrastOf", ContrastVariables[row][i].variable, OnlyToVar(row, i),
               fixContrastWithLightness(Now(stackLimit),
                   ContrastVariables[row][i].variable, OnlyToVar(row, i), 0))

\* nextPossibleCall of the throttle of v
nextPossibleCall(W, v) ==
    IF W.vi[v].callAfterThrottle
    THEN Call(Call(Put(W, v, "callAfterThrottle", FALSE), "colorChanged", <<v, 1>>),
              "rearm", <<v>>)
    ELSE Put(W, v, "isInCooldown", FALSE)

\* turn after a timeout of a variable's throttle has expired, and after one
\* of the picker's throttle has
TimerTurned(t) == IF t % 2 = 0 THEN t + 1 ELSE t - 1
PickerTimerTurned(t) == (t + 2) % 4

\* the timeout that expires next fires
TimerFires ==
    /\ timers # <<>>
    /\ ops' = ops
    /\ turn' = TimerTurned(turn)
    /\ \E stackLimit \in StackLimits :
          Step("timer", Head(timers), <<>>,
               nextPossibleCall(
                   [Now(stackLimit) EXCEPT
                       !.timers = Tail(@),
                       !.picker.timers = [i \in 1..Len(@) |-> Max2(0, @[i] - 1)]],
                   Head(timers)))

Next ==
    \/ \E v \in Vars, value \in Values : SetValue(v, value)
    \/ \E v \in Vars, rgb \in Palette : SetColor(v, rgb)
    \/ \E v \in Vars, p \in Checkboxes : SetCheckbox(v, p)
    \/ \E v \in Vars : SetHueRotate(v, 180)
    \/ \E v \in Vars : FixContrast(v)
    \/ \E row \in Vars : \E i \in 1..Len(ContrastVariables[row]) : FixContrastOf(row, i)
    \/ TimerFires

Spec == Init /\ [][Next]_vars

\* what every step of TimerFires, and no other step, does to turn
TimerTurn ==
    /\ timers # <<>>
    /\ turn' = TimerTurned(turn)

\* A timeout that is set expires: the browser's event loop runs every timer.
\* TimerFires is enabled exactly when a timeout is pending and its steps are
\* the steps that change turn, so this is weak fairness of TimerFires.
FairSpec == Spec /\ WF_turn(TimerTurn)

(***************************************************************************)
(* The contrast repair of one variable against one other, for pages with   *)
(* other colours and other minimal contrasts in the contrast cells.        *)
(***************************************************************************)
\* colours chosen in the colour picker
ContrastPalette ==
    {<<g, g, g, AlphaOne>> : g \in {0, 32, 118, 150, 200, 255}}
    \cup {<<255, 0, 0, AlphaOne>>, <<0, 0, 255, AlphaOne>>}

\* the data-min-contrast attributes of the contrast cells, in tenths
MinContrasts == {30, 45, 70}

\* the contrast repair of v against the one variable target with the minimal
\* contrast minContrast: fixContrastWithLightness(v, onlyToVar), as the
\* button of a contrast cell calls it (with the default 4.5), or the row
\* button of a row whose only contrast variable is target
FixContrastTo(v, target, minContrast) ==
    /\ v # target
    /\ ops < MaxOps
    /\ ops' = ops + 1
    /\ turn' = turn
    /\ \E stackLimit \in StackLimits :
          Step("fixContrastOf", v,
               << ContrastVariableInfo(target, minContrast, "number") >>,
               fixContrastWithLightness(Now(stackLimit), v,
                   << ContrastVariableInfo(target, minContrast, "number") >>, 0))

ContrastNext ==
    \/ \E v \in {"bg", "fg"}, rgb \in ContrastPalette : SetColor(v, rgb)
    \/ \E v \in {"bg", "fg"}, target \in {"bg", "fg"}, minContrast \in MinContrasts :
          FixContrastTo(v, target, minContrast)
    \/ TimerFires

ContrastSpec == Init /\ [][ContrastNext]_vars

(***************************************************************************)
(* Export and import of the theme text.  The text is the sequence of its   *)
(* declarations 'name: value;', each with the options of its comment       *)
(* '/* {key: number, ...} */'; a text without declarations is <<>>.        *)
(***************************************************************************)
\* the text of a number appended to a string: a minus sign for a negative
\* number, then its digits
NumberText(x) == [neg |-> x < 0, digits |-> Abs(x)]

\* the text of a value in a template literal; an undefined value gives the
\* word undefined
TemplateText(value) ==
    IF value = EmptyText THEN Txt("word", <<>>, <<"undefined">>) ELSE value

\* the options exportStyles writes into the comment of a declaration
ExportedOptions(r) ==
    (IF Truthy(r.saveExplicitRgbInOutput)
     THEN << [key |-> "saveExplicitRgbInOutput", number |-> NumberText(1)] >> ELSE <<>>)
    \o (IF r.optionInvert # <<>>
        THEN << [key |-> "invert", number |-> NumberText(1)] >> ELSE <<>>)
    \o (IF r.optionHueRotate # <<>>
        THEN << [key |-> "hueRotate", number |-> NumberText(r.optionHueRotate[1])] >>
        ELSE <<>>)
    \o (IF r.optionSaturationFactor # <<>>
        THEN << [key |-> "saturationFactor",
                 number |-> NumberText(r.optionSaturationFactor[1])] >>
        ELSE <<>>)
    \o (IF r.optionLightnessFactor # <<>>
        THEN << [key |-> "lightnessFactor",
                 number |-> NumberText(r.optionLightnessFactor[1])] >>
        ELSE <<>>)

\* an export that writes a declaration for every variable
RECURSIVE exportStylesOfAll(_, _, _)
exportStylesOfAll(i, exportIncludeExplicitOptions, k) ==
    IF k > Len(VariableOrder) THEN <<>>
    ELSE << [name |-> VariableOrder[k],
             value |-> IF exportIncludeExplicitOptions
                       THEN TemplateText(i[VariableOrder[k]].value)
                       ELSE valueStringOutput(i[VariableOrder[k]]),
             comment |-> IF exportIncludeExplicitOptions
                         THEN ExportedOptions(i[VariableOrder[k]]) ELSE <<>>] >>
         \o exportStylesOfAll(i, exportIncludeExplicitOptions, k + 1)

\* exportStyles: the declarations of the variables from the k-th on; a
\* variable is skipped when it has no option to write and its value should
\* not go in the output
RECURSIVE exportStyles(_, _, _)
exportStyles(i, exportIncludeExplicitOptions, k) ==
    IF k > Len(VariableOrder) THEN <<>>
    ELSE (IF /\ ~(exportIncludeExplicitOptions
                  /\ ExportedOptions(i[VariableOrder[k]]) # <<>>)
             /\ ~valueShouldGoInOutput(i[VariableOrder[k]])
          THEN <<>>
          ELSE << [name |-> VariableOrder[k],
                   value |-> IF exportIncludeExplicitOptions
                             THEN TemplateText(i[VariableOrder[k]].value)
                             ELSE valueStringOutput(i[VariableOrder[k]]),
                   comment |-> IF exportIncludeExplicitOptions
                               THEN ExportedOptions(i[VariableOrder[k]])
                               ELSE <<>>] >>)
         \o exportStyles(i, exportIncludeExplicitOptions, k + 1)

\* the matches of
\* /(saveExplicitRgbInOutput|invert|hueRotate|saturationFactor|lightnessFactor) *: *(\d+(?:\.\d+)?)/g
\* in a comment: the options whose number starts with a digit
OptionMatches(comment) ==
    SelectSeq(comment, LAMBDA o : ~o.number.neg)

\* the value importStyles gives the property of option key: its default, or
\* what the last match of the key in the comment sets
RECURSIVE ImportedOption(_, _, _, _)
ImportedOption(optionMatches, key, default, k) ==
    IF k = 0 THEN default
    ELSE IF optionMatches[k].key = key
    THEN (IF key \in {"saveExplicitRgbInOutput", "invert"}
          THEN TRUE   \* !!optionMatch[2], a string that is not empty
          ELSE optionMatches[k].number.digits)   \* parseFloat
    ELSE ImportedOption(optionMatches, key, default, k - 1)

\* the part of importStyles for one match: setValue(m[2]) and, when the
\* comment has option matches, the five properties set in the order of the map
importDeclaration(W, m) ==
    LET o == OptionMatches(m.comment)
        set(key, default) == <<ImportedOption(o, key, default, Len(o))>>
    IN  IF m.name \notin Vars THEN W
        ELSE IF o = <<>>
        THEN Call(W, "setValue", <<m.name, m.value, FALSE, 0>>)
        ELSE Call(Call(Call(Call(Call(
                 Call(W, "setValue", <<m.name, m.value, FALSE, 0>>),
                 "SetProperty", <<m.name, "saveExplicitRgbInOutput",
                                  set("saveExplicitRgbInOutput", FALSE), 0>>),
                 "SetProperty", <<m.name, "optionInvert", set("invert", FALSE), 0>>),
                 "SetProperty", <<m.name, "optionHueRotate", set("hueRotate", 0), 0>>),
                 "SetProperty", <<m.name, "optionSaturationFactor",
                                  set("saturationFactor", 10), 0>>),
                 "SetProperty", <<m.name, "optionLightnessFactor",
                                  set("lightnessFactor", 10), 0>>)

\* importStyles: the declarations of the text from the k-th on are applied;
\* the page declares neither .view-light nor .view-dark, so that applyTheme
\* of the view finds no theme and sets nothing
RECURSIVE importStyles(_, _, _)
importStyles(W, text, k) ==
    IF k > Len(text) THEN W
    ELSE importStyles(importDeclaration(W, text[k]), text, k + 1)

\* the export button: the text is written into the textarea
ExportStyles(exportIncludeExplicitOptions) ==
    /\ inOutTextarea' = exportStyles(vi, exportIncludeExplicitOptions, 1)
    /\ last' = [op |-> "exportStyles", v |-> "", arg |-> exportIncludeExplicitOptions,
                ran |-> <<>>, req |-> {}]
    /\ UNCHANGED <<vi, timers, page, err, ops, turn, conv, holdVariable, picker>>

\* the import button: the text of the textarea is imported
ImportStyles ==
    /\ ops < MaxOps
    /\ ops' = ops + 1
    /\ turn' = turn
    /\ \E stackLimit \in StackLimits :
          Step("importStyles", "", inOutTextarea,
               importStyles(Now(stackLimit), inOutTextarea, 1))

ThemeNext ==
    \/ \E v \in Vars, value \in Values : SetValue(v, value)
    \/ \E v \in Vars, rgb \in Palette : SetColor(v, rgb)
    \/ \E v \in Vars, p \in Checkboxes : SetCheckbox(v, p)
    \/ \E v \in Vars, deg \in {180, -90} : SetHueRotate(v, deg)
    \/ \E exportIncludeExplicitOptions \in BOOLEAN :
          ExportStyles(exportIncludeExplicitOptions)
    \/ ImportStyles
    \/ TimerFires

ThemeSpec == Init /\ [][ThemeNext]_vars

(***************************************************************************)
(* The view the theme is based on.  On a page whose stylesheet declares    *)
(* the rule .view-dark beside the base values, the toggle of the view      *)
(* applies the values of the view as base values.                          *)
(***************************************************************************)
\* the custom properties the rule .view-dark declares
ViewDarkCss ==
    << <<"bg", HexText(<<0, 0, 0, 0, 0, 0>>)>>,
       <<"fg", VarText("bg--inverted")>>,
       <<"bg--inverted", VarText("fg")>> >>

\* baseCss.get(viewName)
ViewCss(viewName) == IF viewName = "view-dark" THEN ViewDarkCss ELSE BaseCss

\* setBaseValue(baseValue): nothing when it is the present base value; the
\* base colour is the parsed colour of a literal, else the computed colour of
\* colorExplicitEl with baseValue as its background.  The indicator of the
\* adjusted colour is not part of the state.
setBaseValue(W, v, baseValue) ==
    IF W.err # "" \/ W.vi[v].baseValue = baseValue THEN W
    ELSE IF baseValue # EmptyText /\ ~IncludesVar(baseValue) /\ parseColor(baseValue) # Null
    THEN [W EXCEPT !.vi[v].baseValue = baseValue,
                   !.vi[v].baseColor = parseColor(baseValue)]
    ELSE [W EXCEPT !.vi[v].baseValue = baseValue,
                   !.vi[v].colorExplicitEl = baseValue,
                   !.vi[v].baseColor =
                       getCalculatedColorRgb(Put(W, v, "colorExplicitEl", baseValue), v)]

\* applyThemeAsBase: setBaseValue for every variable of the view, from the
\* k-th declaration on
RECURSIVE applyThemeAsBase(_, _, _)
applyThemeAsBase(W, theme, k) ==
    IF k > Len(theme) THEN W
    ELSE applyThemeAsBase(IF theme[k][1] \in Vars
                          THEN setBaseValue(W, theme[k][1], theme[k][2]) ELSE W,
                          theme, k + 1)

\* the toggle of the view the theme is based on
ApplyThemeAsBase(viewName) ==
    /\ ops < MaxOps
    /\ ops' = ops + 1
    /\ turn' = turn
    /\ \E stackLimit \in StackLimits :
          Step("applyThemeAsBase", "", ViewCss(viewName),
               applyThemeAsBase(Now(stackLimit), ViewCss(viewName), 1))

ViewNext ==
    \/ \E v \in Vars, value \in Values : SetValue(v, value)
    \/ \E v \in Vars, rgb \in Palette : SetColor(v, rgb)
    \/ \E v \in Vars, p \in Checkboxes : SetCheckbox(v, p)
    \/ \E viewName \in {"view-light", "view-dark"} : ApplyThemeAsBase(viewName)
    \/ TimerFires

ViewSpec == Init /\ [][ViewNext]_vars

(***************************************************************************)
(* The number fields of the colour options and the hex field of the colour *)
(* picker.                                                                 *)
(***************************************************************************)
\* what e.target.value of a number field can be: the digits of a number, or
\* the empty string (<<>>) when the field is empty or its content is no number
NumberFieldValues == {<<>>, <<20>>}

\* parseFloat of the value of a number field
parseFloat(fieldValue) == IF fieldValue = <<>> THEN NaN ELSE fieldValue

NumberOptions == {"optionHueRotate", "optionSaturationFactor", "optionLightnessFactor"}

\* the change event of the number field bound to the property p:
\* model[propertyName] = parseFloat(e.target.value)
SetNumberField(v, p, fieldValue) ==
    /\ ops < MaxOps
    /\ ops' = ops + 1
    /\ turn' = turn
    /\ \E stackLimit \in StackLimits :
          Step("setNumberField", v, <<p, fieldValue>>,
               Call(Now(stackLimit), "SetProperty", <<v, p, parseFloat(fieldValue), 0>>))

\* texts typed into the hex field of the picker: 'ff', 'g00' and '080'
HexInputs == {<<15, 15>>, <<16, 0, 0>>, <<0, 8, 0>>}

\* the input event of the hex field while the picker edits v:
\* setColorAndSetControls(hexToRgb(e.target.value)) returns at once for null;
\* else the picker takes the colour and its preview sets it on the variable
SetHexInput(v, d) ==
    /\ vi[v].rgb # Null
    /\ ops < MaxOps
    /\ ops' = ops + 1
    /\ turn' = turn
    /\ \E stackLimit \in StackLimits :
          Step("setHexInput", v, d,
               IF hexToRgb(d) = Null THEN Now(stackLimit)
               ELSE Call(Now(stackLimit), "setColor",
                         <<v, hexToRgb(d), FALSE, <<FALSE>>, 0>>))

FieldNext ==
    \/ \E v \in Vars, value \in Values : SetValue(v, value)
    \/ \E v \in Vars, p \in Checkboxes : SetCheckbox(v, p)
    \/ \E v \in Vars, p \in NumberOptions, fieldValue \in NumberFieldValues :
          SetNumberField(v, p, fieldValue)
    \/ \E v \in Vars, d \in HexInputs : SetHexInput(v, d)
    \/ TimerFires

FieldSpec == Init /\ [][FieldNext]_vars

(***************************************************************************)
(* The editor on a page whose stylesheet declares no value for --fg: the   *)
(* variable of the table row has no value and no base value until it is    *)
(* given one.                                                              *)
(***************************************************************************)
BaseCssWithoutFg ==
    << <<"bg", HexText(<<2, 0, 2, 0, 2, 0>>)>>,
       <<"bg--inverted", HexText(<<13, 15, 13, 15, 13, 15>>)>> >>

InitWithoutFg ==
    /\ vi = initializeVariablesOn(BaseCssWithoutFg).vi
    /\ timers = initializeVariablesOn(BaseCssWithoutFg).timers
    /\ page = initializeVariablesOn(BaseCssWithoutFg).page
    /\ err = initializeVariablesOn(BaseCssWithoutFg).err
    /\ ops = 0
    /\ turn = 0
    /\ inOutTextarea = <<>>
    /\ holdVariable = ""
    /\ picker = ClosedPicker
    /\ conv = NoConversion
    /\ last = [op |-> "initializeVariables", v |-> "", arg |-> <<>>,
               ran |-> initializeVariablesOn(BaseCssWithoutFg).ran,
               req |-> initializeVariablesOn(BaseCssWithoutFg).req]

SpecWithoutFg == InitWithoutFg /\ [][Next]_vars

(***************************************************************************)
(* The editor on a page whose stylesheet declares --bg as var(--fg): the   *)
(* variable --bg is Indirect from the start.                               *)
(***************************************************************************)
BaseCssIndirectBg ==
    << <<"bg", VarText("fg")>>,
       <<"fg", HexText(<<15, 15, 15, 15, 15, 15>>)>>,
       <<"bg--inverted", HexText(<<13, 15, 13, 15, 13, 15>>)>> >>

InitIndirectBg ==
    /\ vi = initializeVariablesOn(BaseCssIndirectBg).vi
    /\ timers = initializeVariablesOn(BaseCssIndirectBg).timers
    /\ page = initializeVariablesOn(BaseCssIndirectBg).page
    /\ err = initializeVariablesOn(BaseCssIndirectBg).err
    /\ ops = 0
    /\ turn = 0
    /\ inOutTextarea = <<>>
    /\ holdVariable = ""
    /\ picker = ClosedPicker
    /\ conv = NoConversion
    /\ last = [op |-> "initializeVariables", v |-> "", arg |-> <<>>,
               ran |-> initializeVariablesOn(BaseCssIndirectBg).ran,
               req |-> initializeVariablesOn(BaseCssIndirectBg).req]

SpecIndirectBg == InitIndirectBg /\ [][Next]_vars

(***************************************************************************)
(* The copy and paste buttons of a variable.                               *)
(***************************************************************************)
RECURSIVE Gcd(_, _)
Gcd(a, b) == IF b = 0 THEN a ELSE Gcd(b, a % b)

\* the quotient target / source (source > 0) as a factor option
Quotient(target, source) ==
    IF (10 * target) % source = 0 THEN <<(10 * target) \div source>>
    ELSE <<target \div Gcd(target, source), source \div Gcd(target, source)>>

\* setValueOfVariableByName(varName, variableSource, pasteRef, pasteRelativeRef);
\* variableSource is the name of the variable, "" for undefined
setValueOfVariableByName(W, varName, variableSource, pasteRef, pasteRelativeRef) ==
    IF variableSource = "" THEN W
    ELSE IF ~pasteRef
    THEN IF W.vi[variableSource].rgb = Null THEN [W EXCEPT !.err = "TypeError"]
         ELSE Call(W, "setColor", <<varName, W.vi[variableSource].rgb, FALSE, <<FALSE>>, 0>>)
    ELSE IF ~pasteRelativeRef
    THEN Call(Call(Call(Call(W,
              "SetProperty", <<varName, "optionHueRotate", <<0>>, 0>>),
              "SetProperty", <<varName, "optionSaturationFactor", <<10>>, 0>>),
              "SetProperty", <<varName, "optionLightnessFactor", <<10>>, 0>>),
              "setValue", <<varName, VarText(variableSource), FALSE, 0>>)
    ELSE IF W.vi[variableSource].rgb = Null \/ W.vi[varName].rgb = Null
    THEN [W EXCEPT !.err = "TypeError"]
    ELSE LET hsvSlSource == rgbToHsvSl(W.vi[variableSource].rgb)
             hsvSlTarget == rgbToHsvSl(W.vi[varName].rgb)
         IN  Call(Call(Call(Call(Call(W,
                  "SetProperty", <<varName, "saveExplicitRgbInOutput", <<TRUE>>, 0>>),
                  "SetProperty", <<varName, "optionHueRotate",
                                   <<hsvSlTarget[1] - hsvSlSource[1]>>, 0>>),
                  "SetProperty", <<varName, "optionSaturationFactor",
                                   IF hsvSlSource[4] > 0
                                   THEN Quotient(hsvSlTarget[4], hsvSlSource[4])
                                   ELSE <<10>>, 0>>),
                  "SetProperty", <<varName, "optionLightnessFactor",
                                   IF hsvSlSource[5] > 0
                                   THEN Quotient(hsvSlTarget[5], hsvSlSource[5])
                                   ELSE <<10>>, 0>>),
                  "setValue", <<varName, VarText(variableSource), FALSE, 0>>)

\* colours chosen in the colour picker before a variable is copied or pasted
PastePalette == {<<0, 0, 0, AlphaOne>>, <<213, 108, 5, AlphaOne>>}

\* the button 'copy' of the variable v
Copy(v) ==
    /\ holdVariable # v
    /\ holdVariable' = v
    /\ UNCHANGED <<vi, timers, page, err, ops, turn, last, inOutTextarea, conv, picker>>

\* the buttons 'paste value', 'paste ref' and 'paste ref rel' of the variable v
Paste(v, pasteRef, pasteRelativeRef) ==
    /\ ops < MaxOps
    /\ ops' = ops + 1
    /\ turn' = turn
    /\ \E stackLimit \in StackLimits :
          Step("paste", v, <<holdVariable, pasteRef, pasteRelativeRef>>,
               setValueOfVariableByName(Now(stackLimit), v, holdVariable,
                                        pasteRef, pasteRelativeRef))

PasteNext ==
    \/ \E v \in Vars, rgb \in PastePalette : SetColor(v, rgb)
    \/ \E v \in Vars : Copy(v)
    \/ \E v \in Vars : Paste(v, FALSE, FALSE)
    \/ \E v \in Vars : Paste(v, TRUE, FALSE)
    \/ \E v \in Vars : Paste(v, TRUE, TRUE)
    \/ TimerFires

PasteSpec == Init /\ [][PasteNext]_vars

(***************************************************************************)
(* The colour picker: a click on a variable opens the picker for it, the   *)
(* close button hides it, an input on its R, G, B controls sets its colour *)
(* and, through the throttle of the preview, the colour of the variable    *)
(* it edits.                                                               *)
(***************************************************************************)
\* number of user operations in one behaviour with the picker
MaxPickerOps == 3

\* the colours set with the R, G, B controls
PickerPalette == {<<0, 0, 0>>, <<213, 108, 5>>}

\* the click on the name or the colour cell of the variable v
EditColorInColorPicker(v) ==
    /\ ops < MaxPickerOps
    /\ ops' = ops + 1
    /\ turn' = turn
    /\ \E stackLimit \in StackLimits :
          Step("editColorInColorPicker", v, <<>>,
               editColorInColorPicker(Now(stackLimit), v))

\* the close button of the picker: editColorInColorPicker(null)
ClosePicker ==
    /\ picker.currentColorVariable # ""
    /\ ops < MaxPickerOps
    /\ ops' = ops + 1
    /\ turn' = turn
    /\ \E stackLimit \in StackLimits :
          Step("closePicker", picker.currentColorVariable, <<>>,
               editColorInColorPicker(Now(stackLimit), ""))

\* an input event of one of the R, G, B controls of the picker, which is
\* shown: updateFromRgbControls sets the colour of the controls and calls
\* updatePreviewThrottled()
PickerInput(rgb) ==
    /\ picker.currentColorVariable # ""
    /\ SubSeq(picker.rgb, 1, 3) # rgb
    /\ ops < MaxPickerOps
    /\ ops' = ops + 1
    /\ turn' = turn
    /\ \E stackLimit \in StackLimits :
          Step("pickerInput", picker.currentColorVariable, rgb,
               LET W == setColorByRgb(Now(stackLimit), rgb)
               IN  Call([W EXCEPT !.picker.chosen =
                                     <<picker.currentColorVariable, W.picker.rgb>>],
                        "updatePreviewThrottled", <<0>>))

\* nextPossibleCall of the picker's throttle
pickerNextPossibleCall(W) ==
    IF W.picker.callAfterThrottle
    THEN Call(Call([W EXCEPT !.picker.callAfterThrottle = FALSE],
                   "updatePreview", <<0>>),
              "pickerRearm", <<>>)
    ELSE [W EXCEPT !.picker.isInCooldown = FALSE]

\* the timeout of the picker's throttle that expires next fires
PickerTimerFires ==
    /\ picker.timers # <<>>
    /\ Head(picker.timers) = 0
    /\ ops' = ops
    /\ turn' = PickerTimerTurned(turn)
    /\ \E stackLimit \in StackLimits :
          Step("pickerTimer", picker.currentColorVariable, <<>>,
               pickerNextPossibleCall(
                   [Now(stackLimit) EXCEPT !.picker.timers = Tail(@)]))

PickerNext ==
    \/ \E v \in Vars : EditColorInColorPicker(v)
    \/ ClosePicker
    \/ \E rgb \in PickerPalette : PickerInput(rgb)
    \/ TimerFires
    \/ PickerTimerFires

PickerSpec == Init /\ [][PickerNext]_vars

\* what every step of PickerTimerFires, and no other step, does to turn
PickerTimerTurn ==
    /\ picker.timers # <<>>
    /\ Head(picker.timers) = 0
    /\ turn' = PickerTimerTurned(turn)

\* A timeout that is set expires, that of the picker's throttle too.
PickerFairSpec == PickerSpec /\ WF_turn(TimerTurn) /\ WF_turn(PickerTimerTurn)

(***************************************************************************)
(* The colour conversions on their own: an RGB colour is converted with    *)
(* rgbToHsvSl, and its components are converted back with hsvToRgb or with *)
(* hslToRgb.                                                               *)
(***************************************************************************)
\* the channel values the colours are made of; with these no conversion
\* rounds an exact half
Channels == {0, 2, 5, 108, 128, 213, 222, 228, 230}

ConversionInit ==
    /\ vi = initializeVariables.vi
    /\ timers = initializeVariables.timers
    /\ page = initializeVariables.page
    /\ err = initializeVariables.err
    /\ ops = 0
    /\ turn = 0
    /\ inOutTextarea = <<>>
    /\ holdVariable = ""
    /\ picker = ClosedPicker
    /\ last = [op |-> "initializeVariables", v |-> "", arg |-> <<>>,
               ran |-> initializeVariables.ran, req |-> initializeVariables.req]
    /\ conv \in {[NoConversion EXCEPT !.rgb = <<r, g, b>>] :
                     r \in Channels, g \in Channels, b \in Channels}

ApplyRgbToHsvSl ==
    /\ conv.hsvSl = Null
    /\ conv' = [conv EXCEPT !.hsvSl = rgbToHsvSl(conv.rgb)]
    /\ UNCHANGED <<vi, timers, page, err, ops, turn, last, inOutTextarea, holdVariable,
                   picker>>

\* hsvToRgb([hue, saturation_hsv, value])
ApplyHsvToRgb ==
    /\ conv.hsvSl # Null
    /\ conv.by = ""
    /\ conv' = [conv EXCEPT !.by = "hsvToRgb",
                            !.back = hsvToRgb(conv.hsvSl[1], conv.hsvSl[2],
                                              conv.hsvSl[3], AlphaOne)]
    /\ UNCHANGED <<vi, timers, page, err, ops, turn, last, inOutTextarea, holdVariable,
                   picker>>

\* hslToRgb([hue, saturation_hsl, lightness])
ApplyHslToRgb ==
    /\ conv.hsvSl # Null
    /\ conv.by = ""
    /\ conv' = [conv EXCEPT !.by = "hslToRgb",
                            !.back = hslToRgb(conv.hsvSl[1], conv.hsvSl[4], 1,
                                              conv.hsvSl[5], 1, AlphaOne)]
    /\ UNCHANGED <<vi, timers, page, err, ops, turn, last, inOutTextarea, holdVariable,
                   picker>>

ConversionNext ==
    \/ ApplyRgbToHsvSl
    \/ ApplyHsvToRgb
    \/ ApplyHslToRgb

ConversionSpec == ConversionInit /\ [][ConversionNext]_vars

(***************************************************************************)
(* parseColor on its own, on the texts 'color(srgb r g b)' and             *)
(* 'color(srgb r g b / a)'.                                                *)
(***************************************************************************)
\* the components 0, 1, 0.4, 0.2 and 0.5
SrgbComponents == {Num(0, <<>>), Num(1, <<>>), Num(0, <<4>>), Num(0, <<2>>),
                   Num(0, <<5>>)}

\* the alphas 1, 0 and 0.2
SrgbAlphas == {Num(1, <<>>), Num(0, <<>>), Num(0, <<2>>)}

SrgbTexts ==
    {SrgbText(<<r, g, b>>) :
         r \in SrgbComponents, g \in SrgbComponents, b \in SrgbComponents}
    \cup {SrgbText(<<c[1], c[2], c[3], a>>) :
              c \in SrgbComponents \X SrgbComponents \X SrgbComponents,
              a \in SrgbAlphas}

ParseInit ==
    /\ vi = initializeVariables.vi
    /\ timers = initializeVariables.timers
    /\ page = initializeVariables.page
    /\ err = initializeVariables.err
    /\ ops = 0
    /\ turn = 0
    /\ inOutTextarea = <<>>
    /\ holdVariable = ""
    /\ picker = ClosedPicker
    /\ last = [op |-> "initializeVariables", v |-> "", arg |-> <<>>,
               ran |-> initializeVariables.ran, req |-> initializeVariables.req]
    /\ conv \in {[NoConversion EXCEPT !.text = t] : t \in SrgbTexts}

\* parseColor(text)
ApplyParseColor ==
    /\ conv.by = ""
    /\ conv' = [conv EXCEPT !.by = "parseColor", !.back = parseColor(conv.text)]
    /\ UNCHANGED <<vi, timers, page, err, ops, turn, last, inOutTextarea, holdVariable,
                   picker>>

ParseNext == ApplyParseColor

ParseSpec == ParseInit /\ [][ParseNext]_vars


(***************************************************************************)
(* Properties.                                                             *)
(***************************************************************************)
\* C1: in every state, and so after any sequence of setValue calls, for all
\* variables a and n: n is in a.dependsOnVars if and only if a is in
\* n.affectsVars.
C1_InverseLinks ==
    \A a \in Vars, n \in Vars :
        (n \in Range(vi[a].dependsOnVars)) <=> (a \in Range(vi[n].affectsVars))

\* a setValue has replaced the reference of bg--inverted to bg by one to fg
C1_Witness ==
    /\ last.op = "setValue"
    /\ last.v = "bg--inverted"
    /\ vi["bg--inverted"].dependsOnVars = <<"fg">>
    /\ vi["bg"].affectsVars = <<>>
    /\ vi["fg"].affectsVars = <<"bg--inverted">>


(***************************************************************************)
(* Indirect colours and what they should be.                               *)
(***************************************************************************)
Black == <<0, 0, 0, AlphaOne>>
White == <<255, 255, 255, AlphaOne>>

\* a page on which every variable is declared with its present rgb
RgbPage(i) == [x \in Vars |-> Txt("rgb", i[x].rgb, <<>>)]

\* the indirect definition of v evaluated on the present rgb of the variables,
\* with the adjustment options of v applied as getCalculatedColorRgb does
Expected(i, v) ==
    getCalculatedColorRgb(
        [vi |-> [i EXCEPT ![v].colorExplicitEl = i[v].indirectDefinition],
         page |-> RgbPage(i)], v)

\* v is defined indirectly and has sources
IsIndirect(i, v) == Truthy(i[v].useIndirectDefinition) /\ i[v].dependsOnVars # <<>>

ConsistentIn(i, v) == IsIndirect(i, v) => rgbEqual(i[v].rgb, Expected(i, v))

\* the rgb of d is what its definition computes to on the page p
PageConsistent(i, p, d) ==
    IsIndirect(i, d) =>
        rgbEqual(i[d].rgb, getCalculatedColorRgb([vi |-> i, page |-> p], d))

RECURSIVE Closure(_, _, _)
Closure(i, S, n) ==
    IF n = 0 THEN S
    ELSE Closure(i, S \cup UNION {Range(i[x].affectsVars) : x \in S}, n - 1)

\* the direct and transitive dependents of v
DependentsOf(i, v) == Closure(i, Range(i[v].affectsVars), Cardinality(Vars))

RECURSIVE Sources(_, _)
Sources(S, n) ==
    IF n = 0 THEN S
    ELSE Sources(S \cup UNION {Range(vi[x].dependsOnVars) : x \in S}, n - 1)

\* C2: after every operation every variable whose useIndirectDefinition is
\* true has the rgb its indirect definition evaluates to on the present rgb
\* of the variables it depends on, with its adjustment options applied.
C2_IndirectRgbConsistent == \A v \in Vars : ConsistentIn(vi, v)

\* this step is a setColor of the colour picker that changes the rgb of its
\* variable
SetColorChanged ==
    /\ last'.op = "setColor"
    /\ ~rgbEqual(vi[last'.v].rgb, vi'[last'.v].rgb)

InvertedOfBg ==
    /\ vi["bg--inverted"].useIndirectDefinition = <<TRUE>>
    /\ vi["bg--inverted"].indirectDefinition = VarText("bg")
    /\ vi["bg--inverted"].optionInvert = <<TRUE>>
    /\ vi["bg--inverted"].saveExplicitRgbInOutput = <<TRUE>>
    /\ vi["bg--inverted"].optionHueRotate = <<>>
    /\ ~Truthy(vi["bg"].useIndirectDefinition)

C5_SecondSetColorIsNoOp ==
    [][(/\ last.op = "setColor"
        /\ last'.op = "setColor"
        /\ ops' = ops + 1
        /\ last'.v = last.v
        /\ last'.arg = last.arg
        /\ err = "") =>
          /\ vi' = vi
          /\ page' = page
          /\ timers' = timers
          /\ err' = ""
          /\ last'.ran = <<>>
          /\ last'.req = {}]_vars

\* the second of two operations is a setColor of bg to black, which bg
\* already was, and has requested no notification
C5_Witness ==
    /\ ops = 2
    /\ last.op = "setColor"
    /\ last.v = "bg"
    /\ last.arg = Black
    /\ last.ran = <<>>
    /\ last.req = {}
    /\ err = ""
    /\ rgbEqual(vi["bg"].rgb, Black)

\* C6: after any sequence of setValue calls no variable depends on itself,
\* directly or through other variables.
C6_NoDependencyCycle ==
    \A v \in Vars : v \notin Sources(Range(vi[v].dependsOnVars), Cardinality(Vars))

\* C7: no propagation recomputes variables until the call stack is used up:
\* no handler ends with the RangeError of unbounded recursion.
C7_PropagationTerminates == err # "RangeError"

\* the page holds the present output of v
Written(v) == page[v] = valueStringOutput(vi[v])

\* C8: whenever a notification of a variable is pending in the cooldown of
\* its throttle, a timer of that throttle later runs colorChanged for the
\* variable, and after it the page holds the output of the variable unless a
\* further notification is pending again.
C8_TrailingCallRuns ==
    \A v \in Vars :
        (vi[v].isInCooldown /\ vi[v].callAfterThrottle)
           ~> (/\ last.op = "timer"
               /\ last.v = v
               /\ last.ran # <<>>
               /\ Head(last.ran) = v
               /\ (Written(v) \/ vi[v].callAfterThrottle))

\* this step is a contrast repair that changes the rgb of a subject whose
\* useIndirectDefinition was true
FixChanged ==
    /\ last'.op \in {"fixContrast", "fixContrastOf"}
    /\ last'.v \in Vars
    /\ Truthy(vi[last'.v].useIndirectDefinition)
    /\ ~rgbEqual(vi[last'.v].rgb, vi'[last'.v].rgb)

Blocked(cv) ==
    neededLuminanceForContrast(relativeLuminance(vi[cv.variable].rgb), cv.minContrast)

\* every link has a variable, and the luminance of v is not above the lower
\* end of any blocked range, or not below the upper end of any
OutsideBlockedRange(v, links) ==
    /\ \A i \in 1..Len(links) : links[i].variable \in Vars
    /\ \/ \A i \in 1..Len(links) : Blocked(links[i])[1] # Blocked(links[i])[2]
              => relativeLuminance(vi[v].rgb) <= Blocked(links[i])[1]
       \/ \A i \in 1..Len(links) : Blocked(links[i])[1] # Blocked(links[i])[2]
              => relativeLuminance(vi[v].rgb) >= Blocked(links[i])[2]

BlockingLinks(links) ==
    {i \in 1..Len(links) : Blocked(links[i])[1] # Blocked(links[i])[2]}

\* the ends of the blocked range over all links
HullLo(links) == SetMin({Blocked(links[i])[1] : i \in BlockingLinks(links)})
HullHi(links) == SetMax({Blocked(links[i])[2] : i \in BlockingLinks(links)})

\* the luminance of v is blocked and the blocked range, padded by 0.005 on
\* both sides, covers all luminances from 0 to 1
NoFeasibleLuminance(v, links) ==
    /\ \A i \in 1..Len(links) : links[i].variable \in Vars
    /\ BlockingLinks(links) # {}
    /\ ~OutsideBlockedRange(v, links)
    /\ HullLo(links) - LumPad <= 0
    /\ HullHi(links) + LumPad >= LumOne

IsPure(rgb) == SubSeq(rgb, 1, 3) \in {<<0, 0, 0>>, <<255, 255, 255>>}

\* C11: when the padded blocked range covers the whole span of luminance,
\* fixContrastWithLightness raises no error and leaves the subject pure
\* black or pure white.
C11_ExtremeWhenInfeasible ==
    [][(/\ last'.op \in {"fixContrast", "fixContrastOf"}
        /\ last'.v \in Vars
        /\ NoFeasibleLuminance(last'.v, last'.arg)) =>
          /\ err' = ""
          /\ IsPure(vi'[last'.v].rgb)]_vars

\* black or white has the contrast c10 / 10 to the luminance tl
Reachable(tl, c10) ==
    \/ luminanceContrastAtLeast(0, tl, 100 * c10)
    \/ luminanceContrastAtLeast(LumOne, tl, 100 * c10)

\* C12: after fixContrastWithLightness of a subject against one target with
\* the minimal contrast m, the contrast of the subject's rgb to the target's
\* rgb is at least m - 0.01, unless neither black nor white has the contrast
\* m to the target.
C12_RepairReachesContrast ==
    [][(/\ last'.op \in {"fixContrast", "fixContrastOf"}
        /\ last'.v \in Vars
        /\ Len(last'.arg) = 1
        /\ last'.arg[1].variable \in Vars
        /\ err' = ""
        /\ Reachable(relativeLuminance(vi'[last'.arg[1].variable].rgb),
                     last'.arg[1].minContrast)) =>
          luminanceContrastAtLeast(
              relativeLuminance(vi'[last'.v].rgb),
              relativeLuminance(vi'[last'.arg[1].variable].rgb),
              100 * last'.arg[1].minContrast - 10)]_vars

\* C13: valueShouldGoInOutput() is true exactly when the variable is saved as
\* explicit colour, is not indirect or has a value other than its base value,
\* and its rgb differs from its base colour
C13_OutputRuleAsClaimed ==
    \A v \in Vars :
        valueShouldGoInOutput(vi[v]) <=>
            /\ \/ Truthy(vi[v].saveExplicitRgbInOutput)
               \/ ~Truthy(vi[v].useIndirectDefinition)
               \/ vi[v].value # vi[v].baseValue
            /\ ~rgbEqual(vi[v].rgb, vi[v].baseColor)

\* C13 as amended: valueShouldGoInOutput() is false when rgb equals the base
\* colour; otherwise it is true exactly when the variable is saved as explicit
\* colour, is not indirect, has no value, or has a value other than its base
\* value
C13_OutputRule ==
    \A v \in Vars :
        valueShouldGoInOutput(vi[v]) <=>
            IF rgbEqual(vi[v].rgb, vi[v].baseColor) THEN FALSE
            ELSE \/ vi[v].saveExplicitRgbInOutput = <<TRUE>>
                 \/ vi[v].useIndirectDefinition # <<TRUE>>
                 \/ vi[v].value = EmptyText
                 \/ vi[v].value # vi[v].baseValue

\* fg has no value and no base value, was given a colour in the picker and
\* then made indirect: it goes into the output
C13_Witness ==
    /\ vi["fg"].value = EmptyText
    /\ vi["fg"].baseValue = EmptyText
    /\ vi["fg"].useIndirectDefinition = <<TRUE>>
    /\ vi["fg"].saveExplicitRgbInOutput # <<TRUE>>
    /\ vi["fg"].rgb # Null
    /\ vi["fg"].baseColor = Null
    /\ valueShouldGoInOutput(vi["fg"])

OptionValue(o, neutral) == IF o = <<>> THEN neutral ELSE o[1]

\* r has the value and the five options of q
SameValueAndOptions(r, q) ==
    /\ r.value = q.value
    /\ OptionValue(r.saveExplicitRgbInOutput, FALSE) = OptionValue(q.saveExplicitRgbInOutput, FALSE)
    /\ OptionValue(r.optionInvert, FALSE) = OptionValue(q.optionInvert, FALSE)
    /\ OptionValue(r.optionHueRotate, 0) = OptionValue(q.optionHueRotate, 0)
    /\ OptionValue(r.optionSaturationFactor, 10) = OptionValue(q.optionSaturationFactor, 10)
    /\ OptionValue(r.optionLightnessFactor, 10) = OptionValue(q.optionLightnessFactor, 10)

\* C15: after the import of a text just exported with option comments, every
\* variable the text declares has the value and the five options it had at
\* the export, an option that was undefined counting as its neutral value
C15_ImportRestoresExport ==
    [][(/\ last.op = "exportStyles" /\ last.arg
        /\ last'.op = "importStyles" /\ err' = "") =>
          \A j \in 1..Len(inOutTextarea) :
              SameValueAndOptions(vi'[inOutTextarea[j].name],
                                  vi[inOutTextarea[j].name])]_vars

\* the base value of v in the theme, or <<>> when the theme has none
ThemeValue(theme, v) ==
    IF \E k \in 1..Len(theme) : theme[k][1] = v
    THEN <<(CHOOSE e \in Range(theme) : e[1] = v)[2]>> ELSE <<>>

\* the base expression evaluated on the present rgb of the variables, as the
\* colour of v is evaluated
BaseExpected(i, v, baseValue) ==
    IF baseValue # EmptyText /\ ~IncludesVar(baseValue) /\ parseColor(baseValue) # Null
    THEN parseColor(baseValue)
    ELSE getCalculatedColorRgb(
             [vi |-> [i EXCEPT ![v].colorExplicitEl = baseValue], page |-> RgbPage(i)], v)

\* C16: when a view is applied as base, every indirect variable that gets a
\* new base value keeps its rgb, and its baseColor is the base expression
\* evaluated on the colours the variables have at that moment
C16_BaseValueOfIndirect ==
    [][last'.op = "applyThemeAsBase" =>
        \A v \in Vars :
            (/\ Truthy(vi[v].useIndirectDefinition)
             /\ ThemeValue(last'.arg, v) # <<>>
             /\ ThemeValue(last'.arg, v)[1] # vi[v].baseValue) =>
                /\ vi'[v].rgb = vi[v].rgb
                /\ rgbEqual(vi'[v].baseColor,
                            BaseExpected(vi, v, ThemeValue(last'.arg, v)[1]))]_vars

\* value is an indirect definition whose computed colour on the page p is in
\* no format parseColor reads
ResolvesToNoColor(p, value) ==
    /\ value # EmptyText
    /\ IncludesVar(value) \/ parseColor(value) = Null
    /\ parseColor(ComputedBackgroundColor(p, value)) = Null

\* C17: a setValue with a definition that resolves to no colour raises no
\* error and leaves the variable without colour
C17_NoColorIsTolerated ==
    [][(last'.op = "setValue" /\ ResolvesToNoColor(page, last'.arg)) =>
          /\ err' = ""
          /\ vi'[last'.v].rgb = Null]_vars

\* C18: an input that fails to parse (a malformed text in the hex field of the
\* picker, a number field whose content is no number) leaves the variable as
\* it was: the colour and the option keep their values and no NaN is stored
C18_FailedParseChangesNothing ==
    [][/\ (last'.op = "setHexInput" /\ hexToRgb(last'.arg) = Null) => vi' = vi
       /\ (last'.op = "setNumberField" /\ last'.arg[2] = <<>>) =>
              /\ vi'[last'.v][last'.arg[1]] = vi[last'.v][last'.arg[1]]
              /\ ~IsNaN(vi'[last'.v][last'.arg[1]])
              /\ ~IsNaNColor(vi'[last'.v].rgb)]_vars

\* the largest difference between a channel of the colour under conversion
\* and the same channel of the colour converted back
ChannelDeviation ==
    Max3([i \in 1..3 |-> Abs(conv.back[i] - conv.rgb[i])])

\* C19 as stated: for every RGB colour, converting with rgbToHsvSl and back
\* with hsvToRgb (hue, HSV saturation, value) gives each channel within 1 of
\* the original, and so does converting back with hslToRgb (hue, HSL
\* saturation, lightness).
C19_RoundTripWithinOne ==
    conv.by # "" => ChannelDeviation <= 1

\* C19: for every RGB colour, converting with rgbToHsvSl and back with
\* hsvToRgb gives each channel within 3 of the original, and converting back
\* with hslToRgb gives each channel within 5 of the original.
C19_RoundTripWithinRounding ==
    /\ conv.by = "hsvToRgb" => ChannelDeviation <= 3
    /\ conv.by = "hslToRgb" => ChannelDeviation <= 5

\* C19 witness: the colour 2, 228, 230 converted back with hslToRgb is
\* 2, 223, 227.
C19_Witness ==
    /\ conv.rgb = <<2, 228, 230>>
    /\ conv.by = "hslToRgb"
    /\ conv.back = <<2, 223, 227, AlphaOne>>

\* C20: after any setValue(v) on a variable, its dependsOnVars is exactly the
\* set of known variables referenced as var(--name) in v when v is not a
\* literal colour, and empty when v is a literal colour; also when the
\* variable was already Indirect and v is a different indirect expression.
C20_DependsOnVarsAfterSetValue ==
    [][last'.op = "setValue" =>
          LET v == last'.arg
              literal == v # EmptyText /\ ~IncludesVar(v) /\ parseColor(v) # Null
          IN  Range(vi'[last'.v].dependsOnVars) =
                  IF literal THEN {}
                  ELSE {x \in Vars : x \in Range(VarMatches(v))}]_vars

\* C21: after setValue(v), useIndirectDefinition is false and rgb is the
\* parsed colour if v parses as a literal colour, and useIndirectDefinition
\* is true if v fails literal parsing, whatever state the variable was in
\* before.
C21_ValueDecidesIndirect ==
    [][last'.op = "setValue" =>
          LET v == last'.arg
              literal == v # EmptyText /\ ~IncludesVar(v) /\ parseColor(v) # Null
          IN  IF literal
              THEN /\ vi'[last'.v].useIndirectDefinition = <<FALSE>>
                   /\ vi'[last'.v].rgb = parseColor(v)
              ELSE vi'[last'.v].useIndirectDefinition = <<TRUE>>]_vars

\* C22: updateValueFromAffectors, as the setter of a colour option calls it,
\* changes nothing unless the variable is Indirect and has at least one
\* dependency; otherwise it sets rgb to the variable's definition evaluated
\* on the current colours of its dependencies with the variable's own
\* invert, hue-rotate, saturation-factor and lightness-factor options applied
\* (the options are in force when saveExplicitRgbInOutput is set).
C22_RecomputeFromCurrentColours ==
    [][last'.op = "setCheckbox" /\ last'.arg # "useIndirectDefinition" =>
          IF IsIndirect(vi, last'.v)
          THEN rgbEqual(vi'[last'.v].rgb, Expected(vi', last'.v))
          ELSE /\ vi' = [vi EXCEPT ![last'.v][last'.arg] = vi'[last'.v][last'.arg]]
               /\ page' = page
               /\ timers' = timers]_vars

\* the product a * b as <<q, r>> with a * b = 1024 * q + r and r < 1024
Product(a, b) ==
    LET x == (a \div 1024) * b
        y == (a % 1024) * b
    IN  <<x + (y \div 1024), y % 1024>>

\* two contrasts are the same ratio (or both undefined, or both NaN)
ContrastEqual(c1, c2) ==
    IF c1 = Null \/ c2 = Null \/ c1 = NaN \/ c2 = NaN THEN c1 = c2
    ELSE Product(c1[1], c2[2]) = Product(c2[1], c1[2])

\* the k-th contrast link of the row variable holds the contrast of the
\* present colours of its two variables, and its display the class of that
\* contrast
LinkConsistent(i, row, k) ==
    LET cv == i[row].contrastVariables[k]
    IN  cv.variable # "" =>
          /\ ContrastEqual(cv.contrast,
                           colorContrast(i[cv.variable].rgb, i[row].rgb))
          /\ cv.contrast # Null =>
                 cv.display = ContrastClass(cv.contrast, cv.minContrast)

\* C23: whenever the rgb of an endpoint of a contrast link has changed, the
\* contrast of the link is recomputed: once no change notification is pending
\* in a throttle, every link holds the contrast ratio of the present rgb of
\* its two endpoints and the classification (sufficient / insufficient / bad)
\* of that value.
C23_ContrastFollowsEndpoints ==
    (\A v \in Vars : ~vi[v].callAfterThrottle) =>
        \A row \in Vars : \A k \in 1..Len(vi[row].contrastVariables) :
            LinkConsistent(vi, row, k)


\* C24: parseColor of a text color(srgb r g b) or color(srgb r g b / a) with
\* components in 0..1 is [round(255 r), round(255 g), round(255 b)] with the
\* alpha a, or alpha 1 when none is written, also when components are
\* written as the integers 0 or 1.
C24_SrgbComponentsTimes255 ==
    conv.by = "parseColor" =>
        LET d == conv.text.d
        IN  conv.back = <<RoundDiv(255 * (d[1].i * Pow10(Len(d[1].f)) + DigitsValue(d[1].f)),
                                   Pow10(Len(d[1].f))),
                          RoundDiv(255 * (d[2].i * Pow10(Len(d[2].f)) + DigitsValue(d[2].f)),
                                   Pow10(Len(d[2].f))),
                          RoundDiv(255 * (d[3].i * Pow10(Len(d[3].f)) + DigitsValue(d[3].f)),
                                   Pow10(Len(d[3].f))),
                          IF Len(d) = 4
                          THEN RoundDiv(255 * (d[4].i * Pow10(Len(d[4].f)) + DigitsValue(d[4].f)),
                                        Pow10(Len(d[4].f)))
                          ELSE AlphaOne>>


\* the largest difference between the channels of two colours
Deviation(rgb1, rgb2) == Max3([i \in 1..3 |-> Abs(rgb1[i] - rgb2[i])])

\* C25: after a variable was pasted as relative reference the target is
\* Indirect on var(source) with saveExplicitRgbInOutput true and with the hue
\* rotation and the saturation and lightness factors computed from the two
\* colours, and the target's colour is the one it had, up to the rounding of
\* the HSL conversion.
C25_PasteRelativeKeepsColour ==
    [][(/\ last'.op = "paste"
        /\ last'.arg[1] # ""
        /\ last'.arg[2]
        /\ last'.arg[3])
       => LET t == last'.v
              source == last'.arg[1]
              hsvSlSource == rgbToHsvSl(vi[source].rgb)
              hsvSlTarget == rgbToHsvSl(vi[t].rgb)
          IN  /\ vi'[t].useIndirectDefinition = <<TRUE>>
              /\ vi'[t].indirectDefinition = VarText(source)
              /\ vi'[t].dependsOnVars = <<source>>
              /\ vi'[t].saveExplicitRgbInOutput = <<TRUE>>
              /\ vi'[t].optionHueRotate = <<hsvSlTarget[1] - hsvSlSource[1]>>
              /\ vi'[t].optionSaturationFactor =
                     (IF hsvSlSource[4] > 0
                      THEN Quotient(hsvSlTarget[4], hsvSlSource[4]) ELSE <<10>>)
              /\ vi'[t].optionLightnessFactor =
                     (IF hsvSlSource[5] > 0
                      THEN Quotient(hsvSlTarget[5], hsvSlSource[5]) ELSE <<10>>)
              /\ Deviation(vi'[t].rgb, vi[t].rgb) <= 5]_vars


\* C26: when no throttle timer is pending, the rgb of every Indirect variable
\* is its expression evaluated on the present rgb of its dependencies, and
\* the value the page holds for every variable that has a colour and an
\* output string is that output string.
C26_QuiescentConsistent ==
    timers = <<>> =>
        \A v \in Vars :
            /\ ConsistentIn(vi, v)
            /\ (vi[v].rgb # Null /\ valueStringOutput(vi[v]) # EmptyText)
                  => page[v] = valueStringOutput(vi[v])


\* C29: setBaseValue on an Indirect variable does not change the expression
\* its live colour is recomputed from (the background of colorExplicitEl,
\* which getCalculatedColorRgb reads): applying a view as base values leaves
\* it as it was for every Indirect variable.
C29_BaseValueKeepsExpression ==
    [][last'.op = "applyThemeAsBase" =>
          \A v \in Vars :
              IsIndirect(vi, v) => vi'[v].colorExplicitEl = vi[v].colorExplicitEl]_vars


\* C30: whenever useIndirectDefinition of a variable is true, its value is its
\* indirect definition, and the string written to the page and to the export
\* (valueStringOutput) denotes, on the present colours of the variables, the
\* colour rgb.
C30_ValueIsDefinitionInForce ==
    \A v \in Vars :
        Truthy(vi[v].useIndirectDefinition) =>
            /\ vi[v].value = vi[v].indirectDefinition
            /\ rgbEqual(vi[v].rgb,
                        parseColor(ComputedBackgroundColor(RgbPage(vi),
                                                           valueStringOutput(vi[v]))))


\* C27: the colour picker changes a variable only on an input on one of its
\* controls: a click that selects a variable for the picker, or that hides
\* the picker, leaves useIndirectDefinition, dependsOnVars and rgb of every
\* variable as they were.
C27_SelectingChangesNoVariable ==
    [][last'.op \in {"editColorInColorPicker", "closePicker"} =>
          \A v \in Vars :
              /\ vi'[v].useIndirectDefinition = vi[v].useIndirectDefinition
              /\ vi'[v].dependsOnVars = vi[v].dependsOnVars
              /\ vi'[v].rgb = vi[v].rgb]_vars

\* C28: the last colour chosen in the picker for a variable is eventually the
\* colour of that variable (unless another colour is chosen in the picker
\* first), also when the picker is closed or switched to another variable in
\* the cooldown of the throttle of the preview.
C28_LastColourIsApplied ==
    \A x \in Vars : \A rgb \in PickerPalette :
        (picker.chosen = <<x, rgb \o <<AlphaOne>> >>)
            ~> (\/ vi[x].rgb = rgb \o <<AlphaOne>>
                \/ picker.chosen # <<x, rgb \o <<AlphaOne>> >>)
====
